---------------------------- MODULE Spec2Model ----------------------------
(***************************************************************************)
(* The UDP listener probe of cloudprober (probes/udplistener): the probe   *)
(* object, its mutex, and the goroutines started by Probe.Start:           *)
(*   main  - Start / probeLoop / cleanup (recvLoop runs on this goroutine) *)
(*   recv  - recvLoop and processMessage                                   *)
(*   out   - outputLoop, outputResults, logErrs                            *)
(*   echo  - echoLoop (echo mode only)                                     *)
(*   sk    - statsKeeper                                                   *)
(* Times are in nanoseconds.  Variables marked "history" record what has   *)
(* happened and are read by no action's guard or effect on program state.  *)
(***************************************************************************)
EXTENDS Integers, Sequences, FiniteSets, TLC

\* ------------------------------------------------------------------ bounds
\* Names the discovery collaborator may list / senders may put in a message.
Names == {"a", "b"}
\* Sender addresses.
Addrs == {"ip1"}
\* Largest sequence number a sender puts in a message.
MaxSeq == 4
\* Datagrams read by recvLoop in one run.
MaxRecv == 2
\* Ticks of the output loop in one run.
MaxTicks == 2
\* Ticks of the stats keeper's export ticker in one run.
MaxExports == 1
\* Writes of the echo loop in one run.
MaxEchoWrites == 1
\* Nanoseconds between two reads of recvLoop's clock.
TimeStep == 1500
\* Largest time.Since(lastExport) at a tick, in nanoseconds.
MaxElapsed == 8
\* Configuration: opts.Interval (ns) and packets_per_probe.
Interval == 4
PacketsPerProbe == 1
\* Configuration: opts.StatsExportInterval (ns).
StatsExportInterval == 8

\* -------------------------------------------------------- program constants
maxTargets == 1024
logThrottleThreshold == 10
minResultsChLen == 10

VARIABLES
  ctxDone,       \* the context passed to Start has been cancelled
  echoMode,      \* p.echoMode
  conn,          \* p.conn: "open" | "closed"
  mu,            \* p.mu: "none" | "recv" | "out" (holder)
  targets,       \* p.targets (set of names)
  res,           \* p.res: target name -> probeRunResult
  fsm,           \* p.fsm: source -> flow state [seq, rxTS]
  errs,          \* p.errs: [throttleCt, invalidMsgErrs, missingTargets]
  pcM, pcR, pcO, pcE, pcS,   \* position of main, recv, out, echo, sk
  clock,         \* last value of time.Now() read by recvLoop
  dgram,         \* recvLoop's locals: the datagram read and rxTS
  expectedCt,    \* outputLoop's expectedCt of the current tick
  outMap,        \* the map outputResults is ranging over
  outLeft,       \* keys of outMap not yet visited by the range
  resultsChan,   \* the results channel (FIFO of snapshots)
  resultsChLen,  \* its capacity
  echoChan,      \* the echo hand-off channel (FIFO of echoMsg)
  targetMetrics, \* statsKeeper's targetMetrics
  written,       \* datagrams written by echoLoop to the socket (output)
  recorded,      \* records handed to opts.RecordMetrics (output)
  hist,          \* history: per source, sequence numbers of accepted messages
  emitted,       \* history: per target, the sum of the snapshots sent and of
                 \*   their deficits max(0, expectedCt - observed total)
  nRead, nTicks, nExports,  \* history: counts bounding the run
  opts,          \* configuration: p.opts.StatsExportInterval, p.opts.Interval
                 \*   and p.c.GetPacketsPerProbe(), in nanoseconds and packets
  tick,          \* outputLoop's ticker period (0 until the loop has started)
  sinceExport,   \* time.Since(lastExport) as read at the current tick (0 once
                 \*   lastExport is set to time.Now() again)
  logs,          \* the warnings logErrs has written (output)
  client,        \* the RDS client: [cache, names, lastModified]
  rdsCall,       \* the refreshState call in progress or last made: where
                 \*   it is, the request's if_modified_since, the outcome of
                 \*   listResources
  maxAccepted    \* the largest last_modified among the responses updateState
                 \*   has accepted (history)

vars == <<ctxDone, echoMode, conn, mu, targets, res, fsm, errs,
          pcM, pcR, pcO, pcE, pcS, clock, dgram, expectedCt, outMap, outLeft,
          resultsChan, resultsChLen, echoChan, targetMetrics, written,
          recorded, hist, emitted, nRead, nTicks, nExports, opts, tick,
          sinceExport, logs, client, rdsCall, maxAccepted>>

\* ------------------------------------------------------------------ helpers
Max(a, b) == IF a >= b THEN a ELSE b

\* f with key k set to v (k added to the domain when absent).
Put(f, k, v) == [x \in (DOMAIN f) \cup {k} |-> IF x = k THEN v ELSE f[x]]

EmptyMap == [x \in {} |-> 0]

\* ------------------------------------------------------------- wire format
\* A datagram: sender address and payload.  A payload either decodes to a
\* message {src, seq} or fails to decode.
BadPayload == [ok |-> FALSE, src |-> "", seq |-> 0]

MsgPayload(s, q) == [ok |-> TRUE, src |-> s, seq |-> q]

Payloads == {BadPayload} \cup {MsgPayload(s, q) : s \in Names, q \in 1..MaxSeq}

Datagrams == [addr : Addrs, buf : Payloads]

\* The datagrams that carry a message from a source in S with a sequence
\* number in Q.
MessagesFrom(S, Q) ==
  {d \in Datagrams : d.buf.ok /\ d.buf.src \in S /\ d.buf.seq \in Q}

\* Those, and the datagrams that fail to decode.
DatagramsFrom(S, Q) == MessagesFrom(S, Q) \cup {d \in Datagrams : ~d.buf.ok}

\* The number of bytes of a payload (the n ReadFromUDP returns): two for an
\* encoded message, one for bytes that do not decode.
NumBytes(buf) == IF buf.ok THEN 2 ELSE 1

\* udpmessage.NewMessage(buf): the message, or an error.
DecodeErrText == "invalid message"

NewMessage(buf) ==
  IF buf.ok THEN [err |-> "", src |-> buf.src, seq |-> buf.seq]
            ELSE [err |-> DecodeErrText, src |-> "", seq |-> 0]

\* ------------------------------------------------------ flow state tracker
\* msg.ProcessOneWay(fsm, rxTS): the classification and the new flow state map.
NoSignal == [Success |-> FALSE, LostCount |-> 0, Delayed |-> FALSE, InterPktDelay |-> 0]

ProcessOneWay(f, src, seq, rxTS) ==
  IF src \notin DOMAIN f
  THEN [msgRes |-> [NoSignal EXCEPT !.Success = TRUE],
        fsm    |-> Put(f, src, [seq |-> seq, rxTS |-> rxTS])]
  ELSE LET delta == seq - f[src].seq IN
       IF delta = 1
       THEN [msgRes |-> [NoSignal EXCEPT !.Success = TRUE,
                                         !.InterPktDelay = rxTS - f[src].rxTS],
             fsm    |-> Put(f, src, [seq |-> seq, rxTS |-> rxTS])]
       ELSE IF delta > 1
       THEN [msgRes |-> [NoSignal EXCEPT !.LostCount = delta - 1],
             fsm    |-> Put(f, src, [seq |-> seq, rxTS |-> rxTS])]
       ELSE [msgRes |-> [NoSignal EXCEPT !.Delayed = TRUE],
             fsm    |-> f]

\* ------------------------------------------------------------ accumulators
NewResult(t) ==
  [target |-> t, total |-> 0, success |-> 0, ipdUS |-> 0, lost |-> 0, delayed |-> 0]

\* Variant: the accumulators of targets still listed are carried over.
InitProbeRunResultsKeep(tgts) ==
  [t \in tgts |-> IF t \in DOMAIN res THEN res[t] ELSE NewResult(t)]

\* Variant: fresh accumulators for the targets accepted so far; the list
\* just fetched is not used.
InitProbeRunResultsStale(tgts) == [t \in DOMAIN res |-> NewResult(t)]

\* Variant: the targets no longer listed keep an accumulator.
InitProbeRunResultsKeepsDelisted(tgts) ==
  [t \in tgts \cup DOMAIN res |-> NewResult(t)]

\* initProbeRunResults, given the list updateTargets fetched: a fresh map.
InitProbeRunResults(tgts) == [t \in tgts |-> NewResult(t)]

\* Variant: success is not counted.
FoldNoSuccess(r, m) ==
  LET r1 == [r EXCEPT !.total = @ + 1] IN
  IF m.Success
  THEN [r1 EXCEPT !.ipdUS = @ + (m.InterPktDelay \div 1000)]
  ELSE IF m.LostCount > 0
  THEN [r1 EXCEPT !.lost = @ + m.LostCount]
  ELSE IF m.Delayed
  THEN [r1 EXCEPT !.delayed = @ + 1]
  ELSE r1

\* Variant: a gap counts as one lost packet.
FoldLostOne(r, m) ==
  LET r1 == [r EXCEPT !.total = @ + 1] IN
  IF m.Success
  THEN [r1 EXCEPT !.success = @ + 1, !.ipdUS = @ + (m.InterPktDelay \div 1000)]
  ELSE IF m.LostCount > 0
  THEN [r1 EXCEPT !.lost = @ + 1]
  ELSE IF m.Delayed
  THEN [r1 EXCEPT !.delayed = @ + 1]
  ELSE r1

\* Variant: a delayed message is counted as lost.
FoldDelayedAsLost(r, m) ==
  LET r1 == [r EXCEPT !.total = @ + 1] IN
  IF m.Success
  THEN [r1 EXCEPT !.success = @ + 1, !.ipdUS = @ + (m.InterPktDelay \div 1000)]
  ELSE IF m.LostCount > 0 \/ m.Delayed
  THEN [r1 EXCEPT !.lost = @ + Max(1, m.LostCount)]
  ELSE r1

\* Variant: total is counted for in-order messages only.
FoldTotalOnSuccess(r, m) ==
  IF m.Success
  THEN [r EXCEPT !.total = @ + 1, !.success = @ + 1,
                 !.ipdUS = @ + (m.InterPktDelay \div 1000)]
  ELSE IF m.LostCount > 0
  THEN [r EXCEPT !.lost = @ + m.LostCount]
  ELSE IF m.Delayed
  THEN [r EXCEPT !.delayed = @ + 1]
  ELSE r

\* Variant: a late arrival takes back one of the losses counted for it.
FoldLateUndoesLoss(r, m) ==
  LET r1 == [r EXCEPT !.total = @ + 1] IN
  IF m.Success
  THEN [r1 EXCEPT !.success = @ + 1, !.ipdUS = @ + (m.InterPktDelay \div 1000)]
  ELSE IF m.LostCount > 0
  THEN [r1 EXCEPT !.lost = @ + m.LostCount]
  ELSE IF m.Delayed
  THEN [r1 EXCEPT !.delayed = @ + 1, !.lost = @ - 1]
  ELSE r1

\* Variant: a delayed message is counted as a success as well.
FoldDelayedAlsoSuccess(r, m) ==
  LET r1 == [r EXCEPT !.total = @ + 1] IN
  IF m.Success
  THEN [r1 EXCEPT !.success = @ + 1, !.ipdUS = @ + (m.InterPktDelay \div 1000)]
  ELSE IF m.LostCount > 0
  THEN [r1 EXCEPT !.lost = @ + m.LostCount]
  ELSE IF m.Delayed
  THEN [r1 EXCEPT !.delayed = @ + 1, !.success = @ + 1]
  ELSE r1

\* processMessage's update of the accumulator from a classification.
Fold(r, m) ==
  LET r1 == [r EXCEPT !.total = @ + 1] IN
  IF m.Success
  THEN [r1 EXCEPT !.success = @ + 1, !.ipdUS = @ + (m.InterPktDelay \div 1000)]
  ELSE IF m.LostCount > 0
  THEN [r1 EXCEPT !.lost = @ + m.LostCount]
  ELSE IF m.Delayed
  THEN [r1 EXCEPT !.delayed = @ + 1]
  ELSE r1

\* Variant: total is set to the expected count, also when it is above it.
ReconcileSet(r, expected) == [r EXCEPT !.total = expected]

\* Variant: the deficit is added to lost as well.
ReconcileLost(r, expected) ==
  LET delta == expected - r.total IN
  IF delta > 0 THEN [r EXCEPT !.total = @ + delta, !.lost = @ + delta] ELSE r

\* outputResults' reconciliation of one accumulator.
Reconcile(r, expected) ==
  LET delta == expected - r.total IN
  IF delta > 0 THEN [r EXCEPT !.total = @ + delta] ELSE r

\* d.Round(m) of package time, for d >= 0: the multiple of m nearest to d,
\* a halfway value going up; d itself when m <= 0.
Round(d, m) ==
  IF m <= 0 THEN d
  ELSE LET r == d % m IN IF r + r < m THEN d - r ELSE d + m - r

\* Variant: half the export interval, not rounded to the send interval.
TickPeriodNotRounded(o) ==
  IF o.StatsExportInterval \div o.Interval > 1
  THEN o.StatsExportInterval \div 2
  ELSE o.Interval

\* outputLoop's ticker period under the configuration o.
TickPeriod(o) ==
  LET pktsPerExportInterval == o.StatsExportInterval \div o.Interval IN
  IF pktsPerExportInterval > 1
  THEN Round(o.StatsExportInterval \div 2, o.Interval)
  ELSE o.Interval

\* outputLoop's expected packet count for time.Since(lastExport) = elapsed.
roundAdd == (opts.Interval \div 2) - 1

\* Variant: the elapsed time is divided without the rounding term.
ExpectedCtFloor(elapsed) == (elapsed \div opts.Interval) * opts.PacketsPerProbe

ExpectedCt(elapsed) ==
  ((elapsed + roundAdd) \div opts.Interval) * opts.PacketsPerProbe

\* Start's capacity of the results channel.
ResultsChLen(tgts) ==
  IF Cardinality(tgts) < minResultsChLen THEN minResultsChLen ELSE Cardinality(tgts)


\* -------------------------------------------------------------- scenarios
\* A scenario bounds the environment of one run: the configurations, the
\* lists discovery may return, the datagrams that may arrive, the elapsed
\* times at a tick, and how many reads, ticks, exports and echo writes happen.
\* The configuration of every scenario but Ticker:
DefaultOpts ==
  [StatsExportInterval |-> StatsExportInterval, Interval |-> Interval,
   PacketsPerProbe |-> PacketsPerProbe]

Full ==
  [opts |-> {DefaultOpts},
   lists |-> SUBSET Names, dgrams |-> Datagrams, elapsed |-> 0..MaxElapsed,
   echoModes |-> BOOLEAN, maxRecv |-> MaxRecv, maxTicks |-> MaxTicks,
   maxExports |-> MaxExports, maxEchoWrites |-> MaxEchoWrites]

\* No refreshState call is in progress.
NoCall ==
  [pc |-> "idle", ifModifiedSince |-> 0, outcome |-> "none",
   response |-> [resources |-> <<>>, last_modified |-> 0]]

\* rds/client.New: an empty cache, no names, lastModified 0.
NewClient == [cache |-> EmptyMap, names |-> <<>>, lastModified |-> 0]

\* ------------------------------------------------------------------- Init
\* The probe after Probe.Init: empty maps, socket open, nothing started.
InitSc(sc) ==
  /\ ctxDone = FALSE
  /\ echoMode \in sc.echoModes
  /\ conn = "open"
  /\ mu = "none"
  /\ targets = {}
  /\ res = EmptyMap
  /\ fsm = EmptyMap
  /\ errs = [throttleCt |-> 0, invalidMsgErrs |-> EmptyMap, missingTargets |-> EmptyMap]
  /\ pcM = "start" /\ pcR = "none" /\ pcO = "none" /\ pcE = "none" /\ pcS = "none"
  /\ clock = 0
  /\ dgram = [addr |-> "", buf |-> BadPayload, rxTS |-> 0]
  /\ expectedCt = 0
  /\ outMap = EmptyMap
  /\ outLeft = {}
  /\ resultsChan = <<>>
  /\ resultsChLen = 0
  /\ echoChan = <<>>
  /\ targetMetrics = EmptyMap
  /\ written = <<>>
  /\ recorded = <<>>
  /\ hist = [s \in Names |-> <<>>]
  /\ emitted = [t \in Names |-> [total |-> 0, success |-> 0, ipdUS |-> 0,
                                 lost |-> 0, delayed |-> 0, deficit |-> 0]]
  /\ nRead = 0 /\ nTicks = 0 /\ nExports = 0
  /\ opts \in sc.opts
  /\ tick = 0
  /\ sinceExport = 0
  /\ logs = <<>>
  /\ client = NewClient
  /\ rdsCall = NoCall
  /\ maxAccepted = 0

\* ------------------------------------------------------------------- main
\* Start: updateTargets, make the results channel, start statsKeeper, then
\* probeLoop starts outputLoop, which makes its ticker, and (echo mode)
\* echoLoop, and enters recvLoop.
Start(sc) ==
  /\ pcM = "start"
  /\ \E l \in sc.lists :
       /\ targets' = l
       /\ resultsChLen' = ResultsChLen(l)
  /\ pcM' = "probeLoop"
  /\ pcS' = "run"
  /\ pcO' = "idle"
  /\ pcE' = IF echoMode THEN "run" ELSE "none"
  /\ pcR' = "init"
  /\ tick' = TickPeriod(opts)
  /\ UNCHANGED <<ctxDone, echoMode, logs, client, rdsCall, maxAccepted, opts,
                 sinceExport, conn, mu, res, fsm, errs, clock, dgram,
                 expectedCt, outMap, outLeft, resultsChan, echoChan,
                 targetMetrics, written, recorded, hist, emitted, nRead,
                 nTicks, nExports>>

\* Variant: cleanup runs as soon as recvLoop returned, without wg.Wait().
CleanupWithoutWait ==
  /\ pcM = "probeLoop"
  /\ pcR = "done"
  /\ conn' = "closed"
  /\ pcM' = "done"
  /\ UNCHANGED <<ctxDone, echoMode, logs, client, rdsCall, maxAccepted, opts,
                 tick, sinceExport, mu, targets, res, fsm, errs, pcR, pcO, pcE,
                 pcS, clock, dgram, expectedCt, outMap, outLeft, resultsChan,
                 resultsChLen, echoChan, targetMetrics, written, recorded,
                 hist, emitted, nRead, nTicks, nExports>>

\* Variant: the echo loop is not in the wait group: wg.Wait() returns when
\* the output loop has exited.
CleanupIgnoresEchoLoop ==
  /\ pcM = "probeLoop"
  /\ pcR = "done"
  /\ pcO = "done"
  /\ conn' = "closed"
  /\ pcM' = "done"
  /\ UNCHANGED <<ctxDone, echoMode, logs, client, rdsCall, maxAccepted, opts,
                 tick, sinceExport, mu, targets, res, fsm, errs, pcR, pcO, pcE,
                 pcS, clock, dgram, expectedCt, outMap, outLeft, resultsChan,
                 resultsChLen, echoChan, targetMetrics, written, recorded,
                 hist, emitted, nRead, nTicks, nExports>>

\* probeLoop after recvLoop returned: wg.Wait(), then Start's cleanup.
Cleanup ==
  /\ pcM = "probeLoop"
  /\ pcR = "done"
  /\ pcO = "done"
  /\ pcE \in {"done", "none"}
  /\ conn' = "closed"
  /\ pcM' = "done"
  /\ UNCHANGED <<ctxDone, echoMode, logs, client, rdsCall, maxAccepted, opts,
                 tick, sinceExport, mu, targets, res, fsm, errs, pcR, pcO, pcE,
                 pcS, clock, dgram, expectedCt, outMap, outLeft, resultsChan,
                 resultsChLen, echoChan, targetMetrics, written, recorded,
                 hist, emitted, nRead, nTicks, nExports>>

\* The caller cancels the context.
Cancel ==
  /\ ~ctxDone
  /\ ctxDone' = TRUE
  /\ UNCHANGED <<echoMode, logs, client, rdsCall, maxAccepted, opts, tick,
                 sinceExport, conn, mu, targets, res, fsm, errs, pcM, pcR, pcO,
                 pcE, pcS, clock, dgram, expectedCt, outMap, outLeft,
                 resultsChan, resultsChLen, echoChan, targetMetrics, written,
                 recorded, hist, emitted, nRead, nTicks, nExports>>

\* --------------------------------------------------------------- recvLoop
\* recvLoop's initProbeRunResults, first half: updateTargets (no lock held).
RecvInitTargets(sc) ==
  /\ pcR = "init"
  /\ \E l \in sc.lists : targets' = l
  /\ pcR' = "initRes"
  /\ UNCHANGED <<ctxDone, echoMode, logs, client, rdsCall, maxAccepted, opts,
                 tick, sinceExport, conn, mu, res, fsm, errs, pcM, pcO, pcE,
                 pcS, clock, dgram, expectedCt, outMap, outLeft, resultsChan,
                 resultsChLen, echoChan, targetMetrics, written, recorded,
                 hist, emitted, nRead, nTicks, nExports>>

\* recvLoop's initProbeRunResults, second half: a fresh p.res (no lock held).
RecvInitRes ==
  /\ pcR = "initRes"
  /\ res' = InitProbeRunResults(targets)
  /\ pcR' = "check"
  /\ UNCHANGED <<ctxDone, echoMode, logs, client, rdsCall, maxAccepted, opts,
                 tick, sinceExport, conn, mu, targets, fsm, errs, pcM, pcO,
                 pcE, pcS, clock, dgram, expectedCt, outMap, outLeft,
                 resultsChan, resultsChLen, echoChan, targetMetrics, written,
                 recorded, hist, emitted, nRead, nTicks, nExports>>

\* Top of the loop: select on ctx.Done() with a default.
RecvCheck ==
  /\ pcR = "check"
  /\ pcR' = IF ctxDone THEN "done" ELSE "read"
  /\ UNCHANGED <<ctxDone, echoMode, logs, client, rdsCall, maxAccepted, opts,
                 tick, sinceExport, conn, mu, targets, res, fsm, errs, pcM,
                 pcO, pcE, pcS, clock, dgram, expectedCt, outMap, outLeft,
                 resultsChan, resultsChLen, echoChan, targetMetrics, written,
                 recorded, hist, emitted, nRead, nTicks, nExports>>

\* ReadFromUDP fails (the one second read deadline, or another error).
RecvReadErr ==
  /\ pcR = "read"
  /\ pcR' = "check"
  /\ UNCHANGED <<ctxDone, echoMode, logs, client, rdsCall, maxAccepted, opts,
                 tick, sinceExport, conn, mu, targets, res, fsm, errs, pcM,
                 pcO, pcE, pcS, clock, dgram, expectedCt, outMap, outLeft,
                 resultsChan, resultsChLen, echoChan, targetMetrics, written,
                 recorded, hist, emitted, nRead, nTicks, nExports>>

\* Variant: the hand-offs share the receive buffer b (e.buf = b[:n] without
\* the copy), so a read overwrites the bytes of every pending hand-off.
RecvReadIntoSharedBuffer(sc) ==
  /\ pcR = "read"
  /\ nRead < sc.maxRecv
  /\ clock' = clock + TimeStep
  /\ \E d \in sc.dgrams :
       /\ dgram' = [addr |-> d.addr, buf |-> d.buf, rxTS |-> clock + TimeStep]
       /\ echoChan' = [i \in DOMAIN echoChan |-> [echoChan[i] EXCEPT !.buf = d.buf]]
  /\ nRead' = nRead + 1
  /\ pcR' = IF echoMode THEN "echo" ELSE "lock"
  /\ UNCHANGED <<ctxDone, echoMode, logs, client, rdsCall, maxAccepted, opts,
                 tick, sinceExport, conn, mu, targets, res, fsm, errs, pcM,
                 pcO, pcE, pcS, expectedCt, outMap, outLeft, resultsChan,
                 resultsChLen, targetMetrics, written, recorded, hist, emitted,
                 nTicks, nExports>>

\* ReadFromUDP returns a datagram into b; rxTS := time.Now().
RecvRead(sc) ==
  /\ pcR = "read"
  /\ nRead < sc.maxRecv
  /\ clock' = clock + TimeStep
  /\ \E d \in sc.dgrams :
       dgram' = [addr |-> d.addr, buf |-> d.buf, rxTS |-> clock + TimeStep]
  /\ nRead' = nRead + 1
  /\ pcR' = IF echoMode THEN "echo" ELSE "lock"
  /\ UNCHANGED <<ctxDone, echoMode, logs, client, rdsCall, maxAccepted, opts,
                 tick, sinceExport, conn, mu, targets, res, fsm, errs, pcM,
                 pcO, pcE, pcS, expectedCt, outMap, outLeft, resultsChan,
                 resultsChLen, echoChan, targetMetrics, written, recorded,
                 hist, emitted, nTicks, nExports>>

\* Variant: only datagrams that decode are handed to the echo loop.
RecvEchoDecodedOnly ==
  /\ pcR = "echo"
  /\ Len(echoChan) < maxTargets
  /\ echoChan' = IF dgram.buf.ok
                 THEN Append(echoChan, [addr |-> dgram.addr, buf |-> dgram.buf, bufLen |-> 0])
                 ELSE echoChan
  /\ pcR' = "lock"
  /\ UNCHANGED <<ctxDone, echoMode, logs, client, rdsCall, maxAccepted, opts,
                 tick, sinceExport, conn, mu, targets, res, fsm, errs, pcM,
                 pcO, pcE, pcS, clock, dgram, expectedCt, outMap, outLeft,
                 resultsChan, resultsChLen, targetMetrics, written, recorded,
                 hist, emitted, nRead, nTicks, nExports>>

\* Echo mode: echoChan <- e, a send that waits while the channel is full.
\* e carries a copy of the bytes and the address; e.bufLen is left zero.
RecvEcho ==
  /\ pcR = "echo"
  /\ Len(echoChan) < maxTargets
  /\ echoChan' = Append(echoChan, [addr |-> dgram.addr, buf |-> dgram.buf, bufLen |-> 0])
  /\ pcR' = "lock"
  /\ UNCHANGED <<ctxDone, echoMode, logs, client, rdsCall, maxAccepted, opts,
                 tick, sinceExport, conn, mu, targets, res, fsm, errs, pcM,
                 pcO, pcE, pcS, clock, dgram, expectedCt, outMap, outLeft,
                 resultsChan, resultsChLen, targetMetrics, written, recorded,
                 hist, emitted, nRead, nTicks, nExports>>

\* Variant: after recording a decode error processMessage goes on with the
\* zero message, whose empty sourceID is counted as an unknown sender.
ProcessMessageGoesOnAfterError ==
  /\ pcR = "lock"
  /\ mu = "none"
  /\ LET msg == NewMessage(dgram.buf) IN
     IF msg.src \notin DOMAIN res
     THEN /\ errs' = [errs EXCEPT
                        !.invalidMsgErrs =
                           IF msg.err # "" THEN Put(@, dgram.addr, msg.err) ELSE @,
                        !.missingTargets =
                           Put(@, msg.src, IF msg.src \in DOMAIN @ THEN @[msg.src] + 1 ELSE 1)]
          /\ UNCHANGED <<res, fsm, hist>>
     ELSE LET p == ProcessOneWay(fsm, msg.src, msg.seq, dgram.rxTS) IN
          /\ fsm' = p.fsm
          /\ res' = [res EXCEPT ![msg.src] = Fold(@, p.msgRes)]
          /\ hist' = [hist EXCEPT ![msg.src] = Append(@, msg.seq)]
          /\ UNCHANGED errs
  /\ pcR' = "check"
  /\ UNCHANGED <<ctxDone, echoMode, logs, client, rdsCall, maxAccepted, opts,
                 tick, sinceExport, conn, mu, targets, pcM, pcO, pcE, pcS,
                 clock, dgram, expectedCt, outMap, outLeft, resultsChan,
                 resultsChLen, echoChan, targetMetrics, written, recorded,
                 emitted, nRead, nTicks, nExports>>

\* Variant: the message is classified before its sourceID is looked up.
ProcessMessageClassifiesFirst ==
  /\ pcR = "lock"
  /\ mu = "none"
  /\ LET msg == NewMessage(dgram.buf) IN
     IF msg.err # ""
     THEN /\ errs' = [errs EXCEPT !.invalidMsgErrs = Put(@, dgram.addr, msg.err)]
          /\ UNCHANGED <<res, fsm, hist>>
     ELSE LET p == ProcessOneWay(fsm, msg.src, msg.seq, dgram.rxTS) IN
          /\ fsm' = p.fsm
          /\ IF msg.src \notin DOMAIN res
             THEN /\ errs' = [errs EXCEPT !.missingTargets =
                                Put(@, msg.src, IF msg.src \in DOMAIN @ THEN @[msg.src] + 1 ELSE 1)]
                  /\ UNCHANGED <<res, hist>>
             ELSE /\ res' = [res EXCEPT ![msg.src] = Fold(@, p.msgRes)]
                  /\ hist' = [hist EXCEPT ![msg.src] = Append(@, msg.seq)]
                  /\ UNCHANGED errs
  /\ pcR' = "check"
  /\ UNCHANGED <<ctxDone, echoMode, logs, client, rdsCall, maxAccepted, opts,
                 tick, sinceExport, conn, mu, targets, pcM, pcO, pcE, pcS,
                 clock, dgram, expectedCt, outMap, outLeft, resultsChan,
                 resultsChLen, echoChan, targetMetrics, written, recorded,
                 emitted, nRead, nTicks, nExports>>

\* Variant: one baseline is kept for all sources: accumulating a message
\* moves the flow state of every source to that of the sender.
ProcessMessageSharedBaseline ==
  /\ pcR = "lock"
  /\ mu = "none"
  /\ LET msg == NewMessage(dgram.buf) IN
     IF msg.err # ""
     THEN /\ errs' = [errs EXCEPT !.invalidMsgErrs = Put(@, dgram.addr, msg.err)]
          /\ UNCHANGED <<res, fsm, hist>>
     ELSE IF msg.src \notin DOMAIN res
     THEN /\ errs' = [errs EXCEPT !.missingTargets =
                        Put(@, msg.src, IF msg.src \in DOMAIN @ THEN @[msg.src] + 1 ELSE 1)]
          /\ UNCHANGED <<res, fsm, hist>>
     ELSE LET p == ProcessOneWay(fsm, msg.src, msg.seq, dgram.rxTS) IN
          /\ fsm' = [x \in DOMAIN p.fsm |-> p.fsm[msg.src]]
          /\ res' = [res EXCEPT ![msg.src] = Fold(@, p.msgRes)]
          /\ hist' = [hist EXCEPT ![msg.src] = Append(@, msg.seq)]
          /\ UNCHANGED errs
  /\ pcR' = "check"
  /\ UNCHANGED <<ctxDone, echoMode, logs, client, rdsCall, maxAccepted, opts,
                 tick, sinceExport, conn, mu, targets, pcM, pcO, pcE, pcS,
                 clock, dgram, expectedCt, outMap, outLeft, resultsChan,
                 resultsChLen, echoChan, targetMetrics, written, recorded,
                 emitted, nRead, nTicks, nExports>>

\* processMessage, from p.mu.Lock() to the deferred Unlock.
ProcessMessage ==
  /\ pcR = "lock"
  /\ mu = "none"
  /\ LET msg == NewMessage(dgram.buf) IN
     IF msg.err # ""
     THEN /\ errs' = [errs EXCEPT !.invalidMsgErrs = Put(@, dgram.addr, msg.err)]
          /\ UNCHANGED <<res, fsm, hist>>
     ELSE IF msg.src \notin DOMAIN res
     THEN /\ errs' = [errs EXCEPT !.missingTargets =
                        Put(@, msg.src, IF msg.src \in DOMAIN @ THEN @[msg.src] + 1 ELSE 1)]
          /\ UNCHANGED <<res, fsm, hist>>
     ELSE LET p == ProcessOneWay(fsm, msg.src, msg.seq, dgram.rxTS) IN
          /\ fsm' = p.fsm
          /\ res' = [res EXCEPT ![msg.src] = Fold(@, p.msgRes)]
          /\ hist' = [hist EXCEPT ![msg.src] = Append(@, msg.seq)]
          /\ UNCHANGED errs
  /\ pcR' = "check"
  /\ UNCHANGED <<ctxDone, echoMode, logs, client, rdsCall, maxAccepted, opts,
                 tick, sinceExport, conn, mu, targets, pcM, pcO, pcE, pcS,
                 clock, dgram, expectedCt, outMap, outLeft, resultsChan,
                 resultsChLen, echoChan, targetMetrics, written, recorded,
                 emitted, nRead, nTicks, nExports>>

\* ------------------------------------------------------------- outputLoop
\* select: ctx.Done() is ready.
OutExit ==
  /\ pcO = "idle"
  /\ ctxDone
  /\ pcO' = "done"
  /\ UNCHANGED <<ctxDone, echoMode, logs, client, rdsCall, maxAccepted, opts,
                 tick, sinceExport, conn, mu, targets, res, fsm, errs, pcM,
                 pcR, pcE, pcS, clock, dgram, expectedCt, outMap, outLeft,
                 resultsChan, resultsChLen, echoChan, targetMetrics, written,
                 recorded, hist, emitted, nRead, nTicks, nExports>>

\* select: the ticker fired; expectedCt from the time since the last export.
OutTick(sc) ==
  /\ pcO = "idle"
  /\ nTicks < sc.maxTicks
  /\ \E elapsed \in sc.elapsed :
       /\ sinceExport' = elapsed
       /\ expectedCt' = ExpectedCt(elapsed)
  /\ nTicks' = nTicks + 1
  /\ pcO' = "lock"
  /\ UNCHANGED <<ctxDone, echoMode, logs, client, rdsCall, maxAccepted, opts,
                 tick, conn, mu, targets, res, fsm, errs, pcM, pcR, pcE, pcS,
                 clock, dgram, outMap, outLeft, resultsChan, resultsChLen,
                 echoChan, targetMetrics, written, recorded, hist, emitted,
                 nRead, nExports>>

\* outputResults: p.mu.Lock(), and the range over p.res begins.
OutLock ==
  /\ pcO = "lock"
  /\ mu = "none"
  /\ mu' = "out"
  /\ outMap' = res
  /\ outLeft' = DOMAIN res
  /\ pcO' = "send"
  /\ UNCHANGED <<ctxDone, echoMode, logs, client, rdsCall, maxAccepted, opts,
                 tick, sinceExport, conn, targets, res, fsm, errs, pcM, pcR,
                 pcE, pcS, clock, dgram, expectedCt, resultsChan, resultsChLen,
                 echoChan, targetMetrics, written, recorded, hist, emitted,
                 nRead, nTicks, nExports>>

\* Variant: an accumulator that counted no message is skipped, not sent.
OutSendSkipsSilent ==
  /\ pcO = "send"
  /\ Len(resultsChan) < resultsChLen
  /\ \E t \in outLeft :
       LET r == Reconcile(outMap[t], expectedCt) IN
       /\ resultsChan' = IF outMap[t].total = 0 THEN resultsChan
                         ELSE Append(resultsChan, r)
       /\ outMap' = [outMap EXCEPT ![t] = r]
       /\ outLeft' = outLeft \ {t}
       /\ emitted' = IF outMap[t].total = 0 THEN emitted
                     ELSE [emitted EXCEPT ![t] =
                        [total   |-> @.total + r.total,
                         success |-> @.success + r.success,
                         ipdUS   |-> @.ipdUS + r.ipdUS,
                         lost    |-> @.lost + r.lost,
                         delayed |-> @.delayed + r.delayed,
                         deficit |-> @.deficit + Max(0, expectedCt - outMap[t].total)]]
  /\ UNCHANGED <<ctxDone, echoMode, logs, client, rdsCall, maxAccepted, opts,
                 tick, sinceExport, conn, mu, targets, res, fsm, errs, pcM,
                 pcR, pcO, pcE, pcS, clock, dgram, expectedCt, resultsChLen,
                 echoChan, targetMetrics, written, recorded, hist, nRead,
                 nTicks, nExports>>

\* One iteration of the range: reconcile r and send it, stats <- r, which
\* waits while the channel is full.  The map is visited in any order.
OutSend ==
  /\ pcO = "send"
  /\ Len(resultsChan) < resultsChLen
  /\ \E t \in outLeft :
       LET r == Reconcile(outMap[t], expectedCt) IN
       /\ resultsChan' = Append(resultsChan, r)
       /\ outMap' = [outMap EXCEPT ![t] = r]
       /\ outLeft' = outLeft \ {t}
       /\ emitted' = [emitted EXCEPT ![t] =
                        [total   |-> @.total + r.total,
                         success |-> @.success + r.success,
                         ipdUS   |-> @.ipdUS + r.ipdUS,
                         lost    |-> @.lost + r.lost,
                         delayed |-> @.delayed + r.delayed,
                         deficit |-> @.deficit + Max(0, expectedCt - outMap[t].total)]]
  /\ UNCHANGED <<ctxDone, echoMode, logs, client, rdsCall, maxAccepted, opts,
                 tick, sinceExport, conn, mu, targets, res, fsm, errs, pcM,
                 pcR, pcO, pcE, pcS, clock, dgram, expectedCt, resultsChLen,
                 echoChan, targetMetrics, written, recorded, hist, nRead,
                 nTicks, nExports>>

\* Variant: the reset of a tick also starts the flow states afresh.
OutResetForgetsFlows(sc) ==
  /\ pcO = "send"
  /\ outLeft = {}
  /\ \E l \in sc.lists :
       /\ targets' = l
       /\ res' = InitProbeRunResults(l)
  /\ fsm' = EmptyMap
  /\ outMap' = EmptyMap
  /\ mu' = "none"
  /\ pcO' = "logErrs"
  /\ UNCHANGED <<ctxDone, echoMode, logs, client, rdsCall, maxAccepted, opts,
                 tick, sinceExport, conn, errs, pcM, pcR, pcE, pcS, clock,
                 dgram, expectedCt, outLeft, resultsChan, resultsChLen,
                 echoChan, targetMetrics, written, recorded, hist, emitted,
                 nRead, nTicks, nExports>>

\* Variant: the tick unlocks with the accumulators it has just sent still in
\* p.res for the targets that stay listed.
OutResetKeepsSentObjects(sc) ==
  /\ pcO = "send"
  /\ outLeft = {}
  /\ \E l \in sc.lists :
       /\ targets' = l
       /\ res' = [t \in l |-> IF t \in DOMAIN outMap THEN outMap[t]
                                                     ELSE NewResult(t)]
  /\ outMap' = EmptyMap
  /\ mu' = "none"
  /\ pcO' = "logErrs"
  /\ UNCHANGED <<ctxDone, echoMode, logs, client, rdsCall, maxAccepted, opts,
                 tick, sinceExport, conn, fsm, errs, pcM, pcR, pcE, pcS, clock,
                 dgram, expectedCt, outLeft, resultsChan, resultsChLen,
                 echoChan, targetMetrics, written, recorded, hist, emitted,
                 nRead, nTicks, nExports>>

\* Variant: the reset of a tick drops the flow states of the sources that are
\* not on the new list.
OutResetPrunesFlows(sc) ==
  /\ pcO = "send"
  /\ outLeft = {}
  /\ \E l \in sc.lists :
       /\ targets' = l
       /\ res' = InitProbeRunResults(l)
       /\ fsm' = [x \in (DOMAIN fsm) \cap l |-> fsm[x]]
  /\ outMap' = EmptyMap
  /\ mu' = "none"
  /\ pcO' = "logErrs"
  /\ UNCHANGED <<ctxDone, echoMode, logs, client, rdsCall, maxAccepted, opts,
                 tick, sinceExport, conn, errs, pcM, pcR, pcE, pcS, clock,
                 dgram, expectedCt, outLeft, resultsChan, resultsChLen,
                 echoChan, targetMetrics, written, recorded, hist, emitted,
                 nRead, nTicks, nExports>>

\* The range is over: initProbeRunResults, then the deferred Unlock.
OutReset(sc) ==
  /\ pcO = "send"
  /\ outLeft = {}
  /\ \E l \in sc.lists :
       /\ targets' = l
       /\ res' = InitProbeRunResults(l)
  /\ outMap' = EmptyMap
  /\ mu' = "none"
  /\ pcO' = "logErrs"
  /\ UNCHANGED <<ctxDone, echoMode, logs, client, rdsCall, maxAccepted, opts,
                 tick, sinceExport, conn, fsm, errs, pcM, pcR, pcE, pcS, clock,
                 dgram, expectedCt, outLeft, resultsChan, resultsChLen,
                 echoChan, targetMetrics, written, recorded, hist, emitted,
                 nRead, nTicks, nExports>>

\* The warnings of a flush: one for the decode errors, then one for the
\* unknown senders, each only if there are any.
Warnings(invalid, missing) ==
  (IF invalid # EmptyMap THEN <<[kind |-> "invalid", entries |-> invalid]>>
                         ELSE <<>>)
    \o (IF missing # EmptyMap THEN <<[kind |-> "missing", entries |-> missing]>>
                              ELSE <<>>)

\* Variant of the flush that logs the decode errors only, and empties both
\* maps.
LogErrsLogsDecodeErrorsOnly ==
  /\ pcO = "logErrs"
  /\ LET newVal == errs.throttleCt + 1 IN
     IF newVal # logThrottleThreshold
     THEN /\ errs' = [errs EXCEPT !.throttleCt = newVal]
          /\ logs' = logs
     ELSE /\ mu = "none"
          /\ logs' = logs \o Warnings(errs.invalidMsgErrs, EmptyMap)
          /\ errs' = [throttleCt |-> 0, invalidMsgErrs |-> EmptyMap,
                      missingTargets |-> EmptyMap]
  /\ sinceExport' = 0
  /\ pcO' = "idle"
  /\ UNCHANGED <<ctxDone, echoMode, client, rdsCall, maxAccepted, opts, tick,
                 conn, mu, targets, res, fsm, pcM, pcR, pcE, pcS, clock, dgram,
                 expectedCt, outMap, outLeft, resultsChan, resultsChLen,
                 echoChan, targetMetrics, written, recorded, hist, emitted,
                 nRead, nTicks, nExports>>

\* Variant of logErrs without the throttle: every call logs and empties both
\* maps.
LogErrsUnthrottled ==
  /\ pcO = "logErrs"
  /\ mu = "none"
  /\ errs' = [throttleCt |-> (errs.throttleCt + 1) % logThrottleThreshold,
              invalidMsgErrs |-> EmptyMap, missingTargets |-> EmptyMap]
  /\ logs' = logs \o Warnings(errs.invalidMsgErrs, errs.missingTargets)
  /\ sinceExport' = 0
  /\ pcO' = "idle"
  /\ UNCHANGED <<ctxDone, echoMode, client, rdsCall, maxAccepted, opts, tick,
                 conn, mu, targets, res, fsm, pcM, pcR, pcE, pcS, clock, dgram,
                 expectedCt, outMap, outLeft, resultsChan, resultsChLen,
                 echoChan, targetMetrics, written, recorded, hist, emitted,
                 nRead, nTicks, nExports>>

\* logErrs: count the call; on the logThrottleThreshold-th one take the lock,
\* log and empty both maps, and store 0 in the counter.  Then outputLoop sets
\* lastExport to time.Now().
LogErrs ==
  /\ pcO = "logErrs"
  /\ LET newVal == errs.throttleCt + 1 IN
     IF newVal # logThrottleThreshold
     THEN /\ errs' = [errs EXCEPT !.throttleCt = newVal]
          /\ logs' = logs
     ELSE /\ mu = "none"
          /\ logs' = logs \o Warnings(errs.invalidMsgErrs, errs.missingTargets)
          /\ errs' = [throttleCt |-> 0, invalidMsgErrs |-> EmptyMap,
                      missingTargets |-> EmptyMap]
  /\ sinceExport' = 0
  /\ pcO' = "idle"
  /\ UNCHANGED <<ctxDone, echoMode, client, rdsCall, maxAccepted, opts, tick,
                 conn, mu, targets, res, fsm, pcM, pcR, pcE, pcS, clock, dgram,
                 expectedCt, outMap, outLeft, resultsChan, resultsChLen,
                 echoChan, targetMetrics, written, recorded, hist, emitted,
                 nRead, nTicks, nExports>>

\* --------------------------------------------------------------- echoLoop
\* select: ctx.Done() is ready.
EchoExit ==
  /\ pcE = "run"
  /\ ctxDone
  /\ pcE' = "done"
  /\ UNCHANGED <<ctxDone, echoMode, logs, client, rdsCall, maxAccepted, opts,
                 tick, sinceExport, conn, mu, targets, res, fsm, errs, pcM,
                 pcR, pcO, pcS, clock, dgram, expectedCt, outMap, outLeft,
                 resultsChan, resultsChLen, echoChan, targetMetrics, written,
                 recorded, hist, emitted, nRead, nTicks, nExports>>

\* What WriteToUDP can return for a buffer: every byte and no error ("ok"),
\* fewer bytes and no error ("short"), an error ("err"), or io.EOF ("eof").
WriteResults(buf) ==
  {[outcome |-> "ok", n |-> NumBytes(buf)]}
    \cup {[outcome |-> "short", n |-> k] : k \in 0..(NumBytes(buf) - 1)}
    \cup {[outcome |-> o, n |-> 0] : o \in {"err", "eof"}}

\* What echoLoop logs after a write of msg that returned w.
EchoLog(msg, w) ==
  IF w.outcome = "eof" THEN "none"
  ELSE IF w.outcome = "err" THEN "error"
  ELSE IF w.n < msg.bufLen THEN "warning"
  ELSE "none"

\* Variant of the echoLoop write that returns from the loop on any write
\* error, not only on io.EOF.
EchoWriteStopsOnAnyError(sc) ==
  /\ pcE = "run"
  /\ echoChan # <<>>
  /\ Len(written) < sc.maxEchoWrites
  /\ echoChan' = Tail(echoChan)
  /\ LET msg == Head(echoChan) IN
     \E w \in WriteResults(msg.buf) :
       /\ written' = Append(written, [addr |-> msg.addr, buf |-> msg.buf,
                                      outcome |-> w.outcome, n |-> w.n,
                                      log |-> EchoLog(msg, w)])
       /\ pcE' = IF w.outcome \in {"err", "eof"} THEN "done" ELSE "run"
  /\ UNCHANGED <<ctxDone, echoMode, logs, client, rdsCall, maxAccepted, opts,
                 tick, sinceExport, conn, mu, targets, res, fsm, errs, pcM,
                 pcR, pcO, pcS, clock, dgram, expectedCt, outMap, outLeft,
                 resultsChan, resultsChLen, targetMetrics, recorded, hist,
                 emitted, nRead, nTicks, nExports>>

\* select: a hand-off is ready; WriteToUDP writes it, and echoLoop returns on
\* io.EOF, logs an error on another error, and logs a warning when fewer than
\* msg.bufLen bytes were written.
EchoWrite(sc) ==
  /\ pcE = "run"
  /\ echoChan # <<>>
  /\ Len(written) < sc.maxEchoWrites
  /\ echoChan' = Tail(echoChan)
  /\ LET msg == Head(echoChan) IN
     \E w \in WriteResults(msg.buf) :
       /\ written' = Append(written, [addr |-> msg.addr, buf |-> msg.buf,
                                      outcome |-> w.outcome, n |-> w.n,
                                      log |-> EchoLog(msg, w)])
       /\ pcE' = IF w.outcome = "eof" THEN "done" ELSE "run"
  /\ UNCHANGED <<ctxDone, echoMode, logs, client, rdsCall, maxAccepted, opts,
                 tick, sinceExport, conn, mu, targets, res, fsm, errs, pcM,
                 pcR, pcO, pcS, clock, dgram, expectedCt, outMap, outLeft,
                 resultsChan, resultsChLen, targetMetrics, recorded, hist,
                 emitted, nRead, nTicks, nExports>>

\* ------------------------------------------------------------ statsKeeper
\* result.Metrics(): the five metrics of a snapshot.
Metrics(r) ==
  [total |-> r.total, success |-> r.success, ipd_us |-> r.ipdUS,
   lost |-> r.lost, delayed |-> r.delayed]

\* Metric-wise Add of em into tm.
AddMetrics(tm, em) ==
  [total |-> tm.total + em.total, success |-> tm.success + em.success,
   ipd_us |-> tm.ipd_us + em.ipd_us, lost |-> tm.lost + em.lost,
   delayed |-> tm.delayed + em.delayed]

\* select: a result is ready; keep it as, or add it to, the target's metrics.
SkResult ==
  /\ pcS = "run"
  /\ resultsChan # <<>>
  /\ resultsChan' = Tail(resultsChan)
  /\ LET result == Head(resultsChan)
         t == result.target
     IN targetMetrics' =
          IF t \notin DOMAIN targetMetrics
          THEN Put(targetMetrics, t, Metrics(result))
          ELSE Put(targetMetrics, t, AddMetrics(targetMetrics[t], Metrics(result)))
  /\ UNCHANGED <<ctxDone, echoMode, logs, client, rdsCall, maxAccepted, opts,
                 tick, sinceExport, conn, mu, targets, res, fsm, errs, pcM,
                 pcR, pcO, pcE, pcS, clock, dgram, expectedCt, outMap, outLeft,
                 resultsChLen, echoChan, written, recorded, hist, emitted,
                 nRead, nTicks, nExports>>

\* Variant: the export records the metrics of every target that has some,
\* listed in p.targets or not.
SkExportEveryTotal(sc) ==
  /\ pcS = "run"
  /\ nExports < sc.maxExports
  /\ nExports' = nExports + 1
  /\ recorded' = Append(recorded,
                   [t \in DOMAIN targetMetrics |-> targetMetrics[t]])
  /\ UNCHANGED <<ctxDone, echoMode, logs, client, rdsCall, maxAccepted, opts,
                 tick, sinceExport, conn, mu, targets, res, fsm, errs, pcM,
                 pcR, pcO, pcE, pcS, clock, dgram, expectedCt, outMap, outLeft,
                 resultsChan, resultsChLen, echoChan, targetMetrics, written,
                 hist, emitted, nRead, nTicks>>

\* select: the export ticker fired; record a clone of the metrics of every
\* target of p.targets that has some.
SkExport(sc) ==
  /\ pcS = "run"
  /\ nExports < sc.maxExports
  /\ nExports' = nExports + 1
  /\ recorded' = Append(recorded,
                   [t \in targets \cap DOMAIN targetMetrics |-> targetMetrics[t]])
  /\ UNCHANGED <<ctxDone, echoMode, logs, client, rdsCall, maxAccepted, opts,
                 tick, sinceExport, conn, mu, targets, res, fsm, errs, pcM,
                 pcR, pcO, pcE, pcS, clock, dgram, expectedCt, outMap, outLeft,
                 resultsChan, resultsChLen, echoChan, targetMetrics, written,
                 hist, emitted, nRead, nTicks>>

\* select: ctx.Done() is ready.
SkExit ==
  /\ pcS = "run"
  /\ ctxDone
  /\ pcS' = "done"
  /\ UNCHANGED <<ctxDone, echoMode, logs, client, rdsCall, maxAccepted, opts,
                 tick, sinceExport, conn, mu, targets, res, fsm, errs, pcM,
                 pcR, pcO, pcE, clock, dgram, expectedCt, outMap, outLeft,
                 resultsChan, resultsChLen, echoChan, targetMetrics, written,
                 recorded, hist, emitted, nRead, nTicks, nExports>>

\* ---------------------------------------------------------- specifications
MainNext(sc) == Start(sc) \/ Cleanup

RecvNext(sc) ==
  \/ RecvInitTargets(sc) \/ RecvInitRes \/ RecvCheck \/ RecvReadErr
  \/ RecvRead(sc) \/ ProcessMessage

OutNext(sc) == OutTick(sc) \/ OutLock \/ OutSend \/ OutReset(sc) \/ LogErrs

EchoNext(sc) == RecvEcho \/ EchoExit \/ EchoWrite(sc)

SkNext(sc) == SkResult \/ SkExport(sc) \/ SkExit

\* The whole probe, in either mode.
Init == InitSc(Full)

Next ==
  \/ MainNext(Full) \/ Cancel \/ RecvNext(Full) \/ OutNext(Full) \/ OutExit
  \/ EchoNext(Full) \/ SkNext(Full)

Spec == Init /\ [][Next]_vars

\* Accounting: Start, recvLoop and outputLoop of a probe that is not in echo
\* mode and is not cancelled.  The steps left out (Cancel, the exits,
\* statsKeeper) write none of p.res, p.fsm, p.errs, the results channel's
\* tail or the history variables; they only stop a loop or take snapshots
\* off the results channel, which within the bounds never fills up
\* (MaxTicks * |Names| < minResultsChLen).
Acct ==
  [opts |-> {DefaultOpts},
   lists |-> {{"a"}, Names}, dgrams |-> DatagramsFrom({"a"}, {1, 3}),
   elapsed |-> {0, Interval, MaxElapsed},
   echoModes |-> {FALSE}, maxRecv |-> MaxRecv, maxTicks |-> MaxTicks,
   maxExports |-> 0, maxEchoWrites |-> 0]

InitAcct == InitSc(Acct)

NextAcct == Start(Acct) \/ RecvNext(Acct) \/ OutNext(Acct)

SpecAcct == InitAcct /\ [][NextAcct]_vars

\* Classification: as SpecAcct, with one listed target "a", messages of every
\* sequence number from "a" and from the unlisted "b", and one more read.
Flow ==
  [opts |-> {DefaultOpts},
   lists |-> {{"a"}}, dgrams |-> Datagrams, elapsed |-> {0},
   echoModes |-> {FALSE}, maxRecv |-> MaxRecv + 1, maxTicks |-> MaxTicks,
   maxExports |-> 0, maxEchoWrites |-> 0]

InitFlow == InitSc(Flow)

NextFlow == Start(Flow) \/ RecvNext(Flow) \/ OutNext(Flow)

SpecFlow == InitFlow /\ [][NextFlow]_vars


\* Export under a slow stats keeper: the whole probe, not in echo mode, with
\* one target, at most one datagram, and enough ticks to fill the results
\* channel.  Every goroutine that can take a step eventually takes one; the
\* caller is free to cancel or not.
Block ==
  [opts |-> {DefaultOpts},
   lists |-> {{"a"}}, dgrams |-> MessagesFrom({"a"}, {1}),
   elapsed |-> {0}, echoModes |-> {FALSE}, maxRecv |-> 1,
   maxTicks |-> minResultsChLen + 1, maxExports |-> MaxExports,
   maxEchoWrites |-> 0]

InitBlock == InitSc(Block)

NextBlock ==
  \/ MainNext(Block) \/ Cancel \/ RecvNext(Block) \/ OutNext(Block) \/ OutExit
  \/ SkNext(Block)

SpecBlock ==
  /\ InitBlock /\ [][NextBlock]_vars
  /\ WF_vars(MainNext(Block))
  /\ WF_vars(RecvNext(Block))
  /\ WF_vars(OutNext(Block) \/ OutExit)
  /\ WF_vars(SkNext(Block))

\* Echo backpressure: a probe in echo mode that is not cancelled and whose
\* output ticker has not fired yet, with one target, one kind of datagram, an
\* echo loop that takes at most MaxEchoWrites hand-offs, and enough reads to
\* fill the echo channel.
Echo ==
  [opts |-> {DefaultOpts},
   lists |-> {{"a"}}, dgrams |-> MessagesFrom({"a"}, {1}),
   elapsed |-> {0}, echoModes |-> {TRUE}, maxRecv |-> maxTargets + 1,
   maxTicks |-> 0, maxExports |-> 0, maxEchoWrites |-> MaxEchoWrites]

InitEcho == InitSc(Echo)

NextEcho == Start(Echo) \/ RecvNext(Echo) \/ RecvEcho \/ EchoWrite(Echo)

SpecEcho == InitEcho /\ [][NextEcho]_vars

\* Intake under a changing target list: Start, recvLoop and outputLoop of a
\* probe that is not in echo mode, with discovery listing "a" or both names,
\* datagrams that fail to decode or carry a message from either name, and a
\* caller that is free to cancel.
Intake ==
  [opts |-> {DefaultOpts},
   lists |-> {{"a"}, Names}, dgrams |-> DatagramsFrom(Names, {1, 2}),
   elapsed |-> {0}, echoModes |-> {FALSE}, maxRecv |-> MaxRecv,
   maxTicks |-> MaxTicks, maxExports |-> 0, maxEchoWrites |-> 0]

InitIntake == InitSc(Intake)

NextIntake ==
  Start(Intake) \/ Cancel \/ RecvNext(Intake) \/ OutNext(Intake) \/ OutExit

SpecIntake == InitIntake /\ [][NextIntake]_vars

\* Export: Start, recvLoop, outputLoop and statsKeeper of a probe that is not
\* in echo mode and is not cancelled, with one target, messages 1 and 2 from
\* it, and one export tick more than MaxExports.
Stats ==
  [opts |-> {DefaultOpts},
   lists |-> {{"a"}}, dgrams |-> MessagesFrom({"a"}, {1, 2}),
   elapsed |-> {0, MaxElapsed}, echoModes |-> {FALSE}, maxRecv |-> MaxRecv,
   maxTicks |-> MaxTicks, maxExports |-> MaxExports + 1, maxEchoWrites |-> 0]

InitStats == InitSc(Stats)

NextStats ==
  Start(Stats) \/ RecvNext(Stats) \/ OutNext(Stats) \/ SkResult \/ SkExport(Stats)

SpecStats == InitStats /\ [][NextStats]_vars

\* Echo and shutdown: a probe in echo mode whose output ticker has not fired
\* yet, from Start to cleanup, with datagrams of every outcome (undecodable,
\* from the listed "a", from the unlisted "b"), an echo loop that may take every
\* hand-off, and a caller that is free to cancel.
Shutdown ==
  [opts |-> {DefaultOpts},
   lists |-> {{"a"}}, dgrams |-> DatagramsFrom(Names, {1}),
   elapsed |-> {0}, echoModes |-> {TRUE}, maxRecv |-> MaxRecv,
   maxTicks |-> 0, maxExports |-> 0, maxEchoWrites |-> MaxRecv]

InitShutdown == InitSc(Shutdown)

NextShutdown ==
  \/ MainNext(Shutdown) \/ Cancel \/ RecvNext(Shutdown) \/ OutExit
  \/ EchoNext(Shutdown) \/ SkExit

SpecShutdown == InitShutdown /\ [][NextShutdown]_vars

\* Ticker arithmetic: Start, recvLoop's start-up and outputLoop of a probe
\* under every configuration with a send interval of 2 to Interval + 1 ns, an
\* export interval of 1 to StatsExportInterval + Interval ns and 1 to
\* PacketsPerProbe + 1 packets per probe, with one tick after every elapsed
\* time from 0 to MaxElapsed + Interval ns.
Ticker ==
  [opts |-> [StatsExportInterval : 1..(StatsExportInterval + Interval),
             Interval : 2..(Interval + 1),
             PacketsPerProbe : 1..(PacketsPerProbe + 1)],
   lists |-> {{"a"}}, dgrams |-> {}, elapsed |-> 0..(MaxElapsed + Interval),
   echoModes |-> {FALSE}, maxRecv |-> 0, maxTicks |-> 1,
   maxExports |-> 0, maxEchoWrites |-> 0]

InitTicker == InitSc(Ticker)

NextTicker ==
  Start(Ticker) \/ RecvInitTargets(Ticker) \/ RecvInitRes \/ OutNext(Ticker)

SpecTicker == InitTicker /\ [][NextTicker]_vars

\* Throttled error log: Start, recvLoop and outputLoop of a probe that is not
\* in echo mode and is not cancelled, with the one target "a", datagrams that
\* fail to decode or come from the unlisted "b", and logThrottleThreshold
\* output ticks (the results channel holds that many snapshots).
Throttle ==
  [opts |-> {DefaultOpts},
   lists |-> {{"a"}}, dgrams |-> DatagramsFrom({"b"}, {1}),
   elapsed |-> {0}, echoModes |-> {FALSE}, maxRecv |-> MaxRecv,
   maxTicks |-> logThrottleThreshold, maxExports |-> 0, maxEchoWrites |-> 0]

InitThrottle == InitSc(Throttle)

NextThrottle == Start(Throttle) \/ RecvNext(Throttle) \/ OutNext(Throttle)

SpecThrottle == InitThrottle /\ [][NextThrottle]_vars

\* Export under a changing target list: Start, recvLoop's start-up,
\* outputLoop and statsKeeper of a probe that is not in echo mode, is not
\* cancelled and receives nothing, so that every tick, MaxElapsed after the
\* one before, sends for each accumulator a snapshot whose total is the
\* expected count; discovery lists "a" or both names.  The output loop and
\* the stats keeper take the steps they can take, and the export ticker
\* fires one time more than MaxExports.
Delist ==
  [opts |-> {DefaultOpts},
   lists |-> {{"a"}, Names}, dgrams |-> {},
   elapsed |-> {MaxElapsed}, echoModes |-> {FALSE}, maxRecv |-> 0,
   maxTicks |-> MaxTicks, maxExports |-> MaxExports + 1, maxEchoWrites |-> 0]

InitDelist == InitSc(Delist)

NextDelist ==
  \/ Start(Delist) \/ RecvInitTargets(Delist) \/ RecvInitRes
  \/ OutNext(Delist) \/ SkResult \/ SkExport(Delist)

SpecDelist ==
  /\ InitDelist /\ [][NextDelist]_vars
  /\ WF_vars(OutNext(Delist))
  /\ WF_vars(SkResult)
  /\ WF_vars(SkExport(Delist))

\* A source that leaves the list and comes back: Start, recvLoop and
\* outputLoop of a probe that is not in echo mode and is not cancelled, with
\* discovery listing "a" or both names, messages 1 to 3 from "b", one read
\* more than MaxRecv and MaxTicks ticks.
Relist ==
  [opts |-> {DefaultOpts},
   lists |-> {{"a"}, Names}, dgrams |-> MessagesFrom({"b"}, {1, 2, 3}),
   elapsed |-> {0}, echoModes |-> {FALSE}, maxRecv |-> MaxRecv + 1,
   maxTicks |-> MaxTicks, maxExports |-> 0, maxEchoWrites |-> 0]

InitRelist == InitSc(Relist)

NextRelist == Start(Relist) \/ RecvNext(Relist) \/ OutNext(Relist)

SpecRelist == InitRelist /\ [][NextRelist]_vars

\* -------------------------------------------------------------- RDS client
\* The resources an RDS server lists: a name and an IP string, plain or in
\* CIDR notation (port, labels and last_updated are copied into the cache
\* record the way the IP string is).
ResourceNames == {"r1", "r2"}

IpStrs == {"10.0.0.1", "10.0.0.2/24"}

Resources == [name : ResourceNames, ip : IpStrs]

\* The most resources in one response, and the range of last_modified (an
\* int64: a server may send a negative one).
MaxResources == 3

MaxLastModified == 3

MinLastModified == -1

\* The sequences over S of length at most n.
SeqsUpTo(S, n) == UNION {[1..k -> S] : k \in 0..n}

\* ListResourcesResponse: the resources in the server's order, and
\* last_modified (0 from a server without caching support).
Responses ==
  [resources : SeqsUpTo(Resources, MaxResources),
   last_modified : MinLastModified..MaxLastModified]

\* parseIP: the address of a CIDR string, else the parsed string.
ParseIP(ipStr) == IF ipStr = "10.0.0.2/24" THEN "10.0.0.2" ELSE ipStr

\* The cache record updateState makes of a resource.
CacheRecord(r) == [ip |-> ParseIP(r.ip), ipStr |-> r.ip]

\* Variant of updateState's loop in which a later instance of a name
\* replaces the record of the earlier one.
RECURSIVE FillCacheLastWins(_, _, _, _)
FillCacheLastWins(resources, i, cache, names) ==
  IF i > Len(resources)
  THEN [cache |-> cache, names |-> names]
  ELSE LET r == resources[i] IN
       IF r.name \in DOMAIN cache
       THEN FillCacheLastWins(resources, i + 1,
                              Put(cache, r.name, CacheRecord(r)), names)
       ELSE FillCacheLastWins(resources, i + 1,
                              Put(cache, r.name, CacheRecord(r)),
                              Append(names, r.name))

\* updateState's loop from the i-th resource on: a resource whose name is in
\* the new cache already is ignored, any other gets a cache record and the
\* next place in names.
RECURSIVE FillCache(_, _, _, _)
FillCache(resources, i, cache, names) ==
  IF i > Len(resources)
  THEN [cache |-> cache, names |-> names]
  ELSE LET r == resources[i] IN
       IF r.name \in DOMAIN cache
       THEN FillCache(resources, i + 1, cache, names)
       ELSE FillCache(resources, i + 1, Put(cache, r.name, CacheRecord(r)),
                      Append(names, r.name))

\* updateState's guard: the response is not applied when its last_modified
\* is non-zero and not greater than the client's.
NotRefreshing(c, response) ==
  response.last_modified # 0 /\ response.last_modified <= c.lastModified

\* Variant of updateState that applies a response whose last_modified equals
\* the client's.
UpdatedStateOnEqual(c, response) ==
  IF response.last_modified # 0 /\ response.last_modified < c.lastModified
  THEN c
  ELSE LET f == FillCache(response.resources, 1, EmptyMap, <<>>) IN
       [cache |-> f.cache, names |-> f.names,
        lastModified |-> response.last_modified]

\* The client after updateState(response).
UpdatedState(c, response) ==
  IF NotRefreshing(c, response)
  THEN c
  ELSE LET f == FillCache(response.resources, 1, EmptyMap, <<>>) IN
       [cache |-> f.cache, names |-> f.names,
        lastModified |-> response.last_modified]

\* What ListEndpoints returns for the client c (after the refresh it makes
\* on demand, if any): one endpoint per name, in the order of names.
ListEndpoints(c) ==
  [i \in 1..Len(c.names) |->
     [Name |-> c.names[i], IP |-> c.cache[c.names[i]].ip]]

\* The probe's variables, which the client does not touch.
probeVars ==
  <<ctxDone, echoMode, conn, mu, targets, res, fsm, errs, pcM, pcR, pcO, pcE,
    pcS, clock, dgram, expectedCt, outMap, outLeft, resultsChan, resultsChLen,
    echoChan, targetMetrics, written, recorded, hist, emitted, nRead, nTicks,
    nExports, opts, tick, sinceExport, logs>>

\* refreshState up to the call: the request carries the client's
\* lastModified as if_modified_since.
RefreshState ==
  /\ rdsCall.pc = "idle"
  /\ rdsCall' = [NoCall EXCEPT !.pc = "called",
                               !.ifModifiedSince = client.lastModified]
  /\ UNCHANGED <<probeVars, client, maxAccepted>>

\* listResources returns an error: refreshState logs it and returns.
ListResourcesFails ==
  /\ rdsCall.pc = "called"
  /\ rdsCall' = [rdsCall EXCEPT !.pc = "idle", !.outcome = "error"]
  /\ UNCHANGED <<probeVars, client, maxAccepted>>

\* listResources returns a response.
ListResourcesReturns ==
  /\ rdsCall.pc = "called"
  /\ \E response \in Responses :
       rdsCall' = [rdsCall EXCEPT !.pc = "update", !.outcome = "response",
                                  !.response = response]
  /\ UNCHANGED <<probeVars, client, maxAccepted>>

\* updateState(response), under the client's lock, and refreshState's
\* return.
UpdateState ==
  /\ rdsCall.pc = "update"
  /\ client' = UpdatedState(client, rdsCall.response)
  /\ maxAccepted' =
       IF NotRefreshing(client, rdsCall.response)
       THEN maxAccepted
       ELSE Max(maxAccepted, rdsCall.response.last_modified)
  /\ rdsCall' = [rdsCall EXCEPT !.pc = "idle"]
  /\ UNCHANGED probeVars

\* The client on its own: refreshes one after the other (New's first refresh
\* and its timer loop, or the refreshes ListEndpoints makes on demand), with
\* the probe not started.
InitRds == InitSc(Throttle)

NextRds ==
  RefreshState \/ ListResourcesFails \/ ListResourcesReturns \/ UpdateState

SpecRds == InitRds /\ [][NextRds]_vars

\* ------------------------------------------------------------ properties
ZeroResult == NewResult("")

\* The accumulator of t that no snapshot has carried yet: inside
\* outputResults' range it is the one still to be visited, if any.
Pending(t) ==
  IF pcO = "send"
  THEN IF t \in outLeft THEN outMap[t] ELSE ZeroResult
  ELSE IF t \in DOMAIN res THEN res[t] ELSE ZeroResult

\* What has been counted for t since the start: sent in snapshots or pending.
Counted(t) ==
  [total   |-> emitted[t].total + Pending(t).total,
   success |-> emitted[t].success + Pending(t).success,
   lost    |-> emitted[t].lost + Pending(t).lost,
   delayed |-> emitted[t].delayed + Pending(t).delayed]

\* The step is outputResults sending a snapshot.
SendsSnapshot == pcO = "send" /\ Len(resultsChan') = Len(resultsChan) + 1

\* The snapshot a SendsSnapshot step sends.
Sent == resultsChan'[Len(resultsChan')]

\* The step is processMessage accepting a message from s.
Accepts(s) == pcR = "lock" /\ hist'[s] # hist[s]

\* h is a run of strictly consecutive sequence numbers.
IsRun(h) == \A i \in 1..(Len(h) - 1) : h[i + 1] = h[i] + 1

\* C1: for every target, the totals of the snapshots sent for it, plus the
\* total of the accumulator not yet sent, equal the number of messages
\* accepted for it plus the deficits of the snapshots sent: each accepted
\* message is in exactly one snapshot (or still pending), whatever the
\* interleaving of receives and ticks.
SnapshotTotalsCountEachMessageOnce ==
  \A t \in Names :
    emitted[t].total + Pending(t).total = Len(hist[t]) + emitted[t].deficit

\* C1 witness: two ticks have sent snapshots for "a", two messages from "a"
\* were accepted, one of them after the first tick, and a deficit was added.
TwoTicksTwoMessagesSeen ==
  /\ nTicks = 2 /\ pcO = "idle"
  /\ Len(resultsChan) >= 2
  /\ Len(hist["a"]) = 2
  /\ emitted["a"].deficit > 0
  /\ \E i \in 1..Len(resultsChan) :
       /\ resultsChan[i].target = "a" /\ resultsChan[i].success = 1
       /\ \E j \in (i + 1)..Len(resultsChan) :
            resultsChan[j].target = "a" /\ resultsChan[j].lost = 1

\* C2: the snapshot a tick sends for a target carries
\* total = max(observed total, expectedCt of the tick).
SnapshotTotalIsMaxOfObservedAndExpected ==
  [][SendsSnapshot => Sent.total = Max(outMap[Sent.target].total, expectedCt)]_vars

\* C2 witness: one snapshot was forced up for a target that received nothing
\* and another kept an observed total of 2 above the expected count.
ForcedAndKeptSnapshotsSeen ==
  /\ \E i \in 1..Len(resultsChan) :
       /\ resultsChan[i].total > 0
       /\ resultsChan[i].success + resultsChan[i].lost + resultsChan[i].delayed = 0
  /\ \E j \in 1..Len(resultsChan) :
       /\ resultsChan[j].total = 2
       /\ resultsChan[j].success = 1 /\ resultsChan[j].delayed = 1
  /\ emitted["a"].deficit = 0

\* C3: the snapshot a tick sends carries success, lost, delayed and ipdUS
\* exactly as observed, also when its total was forced up.
ReconciliationChangesOnlyTotal ==
  [][SendsSnapshot =>
       LET o == outMap[Sent.target] IN
       /\ Sent.success = o.success
       /\ Sent.lost = o.lost
       /\ Sent.delayed = o.delayed
       /\ Sent.ipdUS = o.ipdUS
       /\ Sent.target = o.target]_vars

\* C3 witness: a snapshot of "a" with one message observed (a loss of 1) whose
\* total was forced up to 2.
ForcedSnapshotWithLossSeen ==
  \E i \in 1..Len(resultsChan) :
    /\ resultsChan[i].target = "a"
    /\ resultsChan[i].total = 2
    /\ resultsChan[i].lost = 1
    /\ resultsChan[i].success = 0 /\ resultsChan[i].delayed = 0
    /\ emitted["a"].deficit = 1

\* C7: while the messages accepted from a source form a run of N strictly
\* consecutive sequence numbers starting with its first message, N successes
\* and N totals (deficits apart) were counted for it, and no loss or delay.
ConsecutiveRunCountsAsSuccess ==
  \A s \in Names :
    IsRun(hist[s]) =>
      /\ Counted(s).success = Len(hist[s])
      /\ Counted(s).total - emitted[s].deficit = Len(hist[s])
      /\ Counted(s).lost = 0
      /\ Counted(s).delayed = 0

\* C7 witness: a run of three, with a tick in between.
RunOfThreeSeen ==
  /\ hist["a"] = <<2, 3, 4>>
  /\ nTicks >= 1 /\ pcO = "idle"
  /\ emitted["a"].success >= 1
  /\ "a" \in DOMAIN res /\ res["a"].success >= 1

\* C8: accepting a message with sequence number baseline + g + 1, g >= 1,
\* adds g to lost and 1 to total, leaves success and delayed, and moves the
\* baseline to that sequence number, so that the following sequence number
\* is classified as success.
GapAddsItsSizeToLost ==
  [][\A s \in DOMAIN fsm :
       (Accepts(s) /\ dgram.buf.seq > fsm[s].seq + 1) =>
         LET g == dgram.buf.seq - fsm[s].seq - 1 IN
         /\ res'[s].lost = res[s].lost + g
         /\ res'[s].total = res[s].total + 1
         /\ res'[s].success = res[s].success
         /\ res'[s].delayed = res[s].delayed
         /\ fsm'[s].seq = dgram.buf.seq
         /\ ProcessOneWay(fsm', s, dgram.buf.seq + 1, clock).msgRes.Success]_vars

\* C8 witness: 1, then 3 (a gap of 1), then 4, all in one window.
GapThenSuccessSeen ==
  /\ hist["a"] = <<1, 3, 4>>
  /\ "a" \in DOMAIN res
  /\ res["a"].lost = 1 /\ res["a"].success = 2 /\ res["a"].delayed = 0
  /\ res["a"].total = 3

\* C9: accepting a message with a sequence number at or below the baseline
\* adds 1 to delayed and to total, leaves lost and success and the source's
\* flow state; and a recorded baseline changes only when a message with a
\* higher sequence number is accepted from that source.
DelayedLeavesBaseline ==
  [][\A s \in DOMAIN fsm :
       /\ (Accepts(s) /\ dgram.buf.seq <= fsm[s].seq) =>
            /\ res'[s].delayed = res[s].delayed + 1
            /\ res'[s].total = res[s].total + 1
            /\ res'[s].lost = res[s].lost
            /\ res'[s].success = res[s].success
            /\ fsm'[s] = fsm[s]
       /\ s \in DOMAIN fsm'
       /\ (fsm'[s].seq # fsm[s].seq) =>
            (Accepts(s) /\ dgram.buf.seq > fsm[s].seq /\ fsm'[s].seq = dgram.buf.seq)]_vars

\* C9 witness: 3, then the reordered 2 and a duplicate 3; the baseline is 3.
DelayedSeen ==
  /\ hist["a"] = <<3, 2, 3>>
  /\ fsm["a"].seq = 3
  /\ "a" \in DOMAIN res /\ res["a"].delayed = 2 /\ res["a"].total = 3

\* C10: accepting a message adds exactly 1 to total and moves exactly one of
\* success (by 1), lost (by more than 0) and delayed (by 1).
ExactlyOneSignalPerMessage ==
  [][\A s \in Names :
       Accepts(s) =>
         LET dS == res'[s].success - res[s].success
             dL == res'[s].lost - res[s].lost
             dD == res'[s].delayed - res[s].delayed
         IN /\ res'[s].total = res[s].total + 1
            /\ \/ dS = 1 /\ dL = 0 /\ dD = 0
               \/ dS = 0 /\ dL > 0 /\ dD = 0
               \/ dS = 0 /\ dL = 0 /\ dD = 1]_vars

\* C10 witness: one window holds a success, a loss and a delayed message.
AllThreeSignalsSeen ==
  /\ "a" \in DOMAIN res
  /\ res["a"].success = 1 /\ res["a"].lost > 0 /\ res["a"].delayed = 1
  /\ res["a"].total = 3

\* C4: the receive loop is never waiting for the probe lock while the output
\* loop, holding it, waits to hand a snapshot to a full results channel.
IntakeNeverWaitsOnExport ==
  ~(/\ pcR = "lock"
    /\ mu = "out"
    /\ pcO = "send" /\ outLeft # {}
    /\ Len(resultsChan) >= resultsChLen)

\* C5: in echo mode the receive loop is never held at the echo hand-off by a
\* full echo channel: it goes on to account for the datagram.
IntakeNeverWaitsOnEcho ==
  ~(pcR = "echo" /\ Len(echoChan) >= maxTargets)

\* C6: once the context is cancelled every loop exits and Start returns.
CancelLeadsToReturn ==
  ctxDone ~> (pcM = "done" /\ pcR = "done" /\ pcO = "done" /\ pcS = "done")

\* The step is processMessage handling the datagram recvLoop read.
Processes == pcR = "lock" /\ pcR' = "check"

\* The step is the reset that ends outputResults (a tick's refresh).
TickResets == pcO = "send" /\ pcO' = "logErrs"

\* The step is recvLoop's start-up initProbeRunResults replacing p.res.
StartUpResets == pcR = "initRes" /\ pcR' = "check"

\* C11: processMessage of a datagram that fails to decode changes no
\* accumulator, no flow state and no unknown-sender count: it stores the
\* error text under the sender's address, and recvLoop goes back to the top
\* of its loop; and recvLoop returns only from the top of the loop with the
\* context cancelled (a read error takes it back to the top).
DecodeFailureOnlyRecordsError ==
  [][/\ (Processes /\ ~dgram.buf.ok) =>
          /\ res' = res /\ fsm' = fsm /\ hist' = hist
          /\ errs' = [errs EXCEPT !.invalidMsgErrs = Put(@, dgram.addr, DecodeErrText)]
     /\ (pcR = "read" /\ nRead' = nRead) => pcR' \in {"read", "check"}
     /\ (pcR # "done" /\ pcR' = "done") => (pcR = "check" /\ ctxDone)]_vars

\* C11 witness: an undecodable datagram was recorded, the next datagram, a
\* message from "a", was accumulated, and recvLoop returned after the cancel.
BadThenGoodThenCancelSeen ==
  /\ nRead = 2
  /\ "ip1" \in DOMAIN errs.invalidMsgErrs
  /\ errs.missingTargets = EmptyMap
  /\ dgram.buf.ok /\ hist["a"] = <<dgram.buf.seq>>
  /\ DOMAIN fsm = {"a"}
  /\ ctxDone /\ pcR = "done"

\* C12: processMessage of a message whose sourceID has no accumulator in
\* p.res adds one to that sourceID's unknown-sender count and changes nothing
\* else (no accumulator, no flow state, no decode error); and a flow state
\* appears only for a source whose message is being accumulated, i.e. one
\* that has an accumulator in p.res at that moment.
UnknownSenderIsDropped ==
  [][/\ (Processes /\ dgram.buf.ok /\ dgram.buf.src \notin DOMAIN res) =>
          LET src == dgram.buf.src
              old == IF src \in DOMAIN errs.missingTargets
                     THEN errs.missingTargets[src] ELSE 0
          IN /\ res' = res /\ fsm' = fsm /\ hist' = hist
             /\ errs' = [errs EXCEPT !.missingTargets = Put(@, src, old + 1)]
     /\ \A s \in (DOMAIN fsm') \ (DOMAIN fsm) :
          Accepts(s) /\ s \in DOMAIN res /\ s \in DOMAIN res']_vars

\* C12 witness: a message from the unlisted "b" was dropped and counted, a
\* message from the listed "a" was accumulated, and only "a" has a flow state.
UnknownSenderDroppedSeen ==
  /\ errs.missingTargets = [x \in {"b"} |-> 1]
  /\ DOMAIN fsm = {"a"} /\ DOMAIN res = {"a"} /\ res["a"].total = 1
  /\ hist["b"] = <<>>

\* C13 as stated: when Start has returned, every datagram recvLoop read in
\* echo mode has been written back.
EveryDatagramReadIsEchoed ==
  (pcM = "done" /\ echoMode) => Len(written) = nRead

\* C13, amended: in echo mode every datagram read goes to the hand-off before
\* it is decoded and is put on the echo channel once, with its bytes and its
\* sender's address; echoLoop makes one write per hand-off, in the order of
\* the hand-offs, with those bytes to that address; so the datagrams read
\* are, in order, the ones written, then the ones queued, then the one being
\* handed off.  (A datagram still queued when echoLoop returns is not written.)
EchoHandsOffOnceAndWritesInOrder ==
  [][/\ (nRead' # nRead) => pcR' = "echo"
     /\ (pcR = "echo" /\ pcR' # "echo") =>
          /\ Len(echoChan') = Len(echoChan) + 1
          /\ \A i \in 1..Len(echoChan) : echoChan'[i] = echoChan[i]
          /\ echoChan'[Len(echoChan')].addr = dgram.addr
          /\ echoChan'[Len(echoChan')].buf = dgram.buf
          /\ written' = written
     /\ (written' # written) =>
          /\ Len(written') = Len(written) + 1
          /\ \A i \in 1..Len(written) : written'[i] = written[i]
          /\ written'[Len(written')].addr = Head(echoChan).addr
          /\ written'[Len(written')].buf = Head(echoChan).buf
          /\ echoChan' = Tail(echoChan)
     /\ (echoChan' # echoChan) => ((pcR = "echo" /\ pcR' # "echo") \/ written' # written)
     /\ Len(written') + Len(echoChan') + (IF pcR' = "echo" THEN 1 ELSE 0) = nRead']_vars

\* C13 witness: an undecodable datagram and a message from the unlisted "b"
\* were read and both were written back, in that order, each once.
BadAndUnknownEchoedSeen ==
  /\ nRead = 2 /\ Len(written) = 2 /\ echoChan = <<>>
  /\ written[1].buf = BadPayload /\ written[1].addr = "ip1" /\ written[1].outcome = "ok"
  /\ written[2].buf = MsgPayload("b", 1) /\ written[2].outcome = "ok"
  /\ errs.missingTargets = [x \in {"b"} |-> 1]
  /\ res["a"].total = 0

\* The last write of echoLoop failed with io.EOF.
EchoSawEOF == written # <<>> /\ written[Len(written)].outcome = "eof"

\* C17 as stated: a loop has exited only after the cancellation, the receive
\* loop has exited only after the echo loop and the output loop, and the socket
\* is closed only after the receive loop has exited.
ShutdownInStatedOrder ==
  /\ (pcO = "done" \/ pcR = "done") => ctxDone
  /\ pcR = "done" => (pcO = "done" /\ pcE \in {"done", "none"})
  /\ conn = "closed" => pcR = "done"

\* C17, amended: the receive loop and the output loop exit only after the
\* cancellation, the echo loop after it or after a write that failed with
\* io.EOF; the three exit in no fixed order; and the socket is closed only
\* after all three have exited (and then Start returns).
SocketClosedAfterAllLoopsExit ==
  /\ (pcO = "done" \/ pcR = "done") => ctxDone
  /\ pcE = "done" => (ctxDone \/ EchoSawEOF)
  /\ conn = "closed" <=> pcM = "done"
  /\ conn = "closed" =>
       (pcR = "done" /\ pcO = "done" /\ pcE \in {"done", "none"})

\* C17 witness: after a datagram was read and handed off the probe was
\* cancelled, the loops exited and the socket is closed.
SocketClosedSeen ==
  /\ conn = "closed" /\ ctxDone
  /\ nRead >= 1 /\ echoChan # <<>>
  /\ pcR = "done" /\ pcO = "done" /\ pcE = "done"

\* Field-wise sums of metrics, for the properties of statsKeeper.
ZeroMetrics == [total |-> 0, success |-> 0, ipd_us |-> 0, lost |-> 0, delayed |-> 0]

Plus(x, y) ==
  [total |-> x.total + y.total, success |-> x.success + y.success,
   ipd_us |-> x.ipd_us + y.ipd_us, lost |-> x.lost + y.lost,
   delayed |-> x.delayed + y.delayed]

\* The snapshots of t sent by outputResults so far, summed.
SentSum(t) ==
  [total |-> emitted[t].total, success |-> emitted[t].success,
   ipd_us |-> emitted[t].ipdUS, lost |-> emitted[t].lost,
   delayed |-> emitted[t].delayed]

\* The snapshots of t in the sequence q (the results channel), summed.
RECURSIVE QueuedSum(_, _)
QueuedSum(q, t) ==
  IF q = <<>> THEN ZeroMetrics
  ELSE LET rest == QueuedSum(Tail(q), t)
           h == Head(q)
       IN IF h.target = t
          THEN Plus([total |-> h.total, success |-> h.success, ipd_us |-> h.ipdUS,
                     lost |-> h.lost, delayed |-> h.delayed], rest)
          ELSE rest

\* What the first n exports forwarded for t, summed.
RECURSIVE ExportedSum(_, _)
ExportedSum(n, t) ==
  IF n = 0 THEN ZeroMetrics
  ELSE Plus(IF t \in DOMAIN recorded[n] THEN recorded[n][t] ELSE ZeroMetrics,
            ExportedSum(n - 1, t))

\* statsKeeper's running total of t.
RunningTotal(t) ==
  IF t \in DOMAIN targetMetrics THEN targetMetrics[t] ELSE ZeroMetrics

\* C14: the running total of a target is the sum of the snapshots received
\* for it in the current export window, i.e. since the last export: with what
\* the exports forwarded (each the sum of its window) and what is still in
\* the results channel it adds up to the snapshots sent.
RunningTotalIsSumOfWindowSnapshots ==
  \A t \in Names :
    Plus(RunningTotal(t), Plus(ExportedSum(Len(recorded), t), QueuedSum(resultsChan, t)))
      = SentSum(t)

\* C15: no snapshot is counted in two exports: for every target and counter,
\* what the exports forwarded adds up to no more than the snapshots sent.
NoSnapshotInTwoExports ==
  \A t \in Names :
    LET e == ExportedSum(Len(recorded), t) IN
    /\ e.total <= SentSum(t).total
    /\ e.success <= SentSum(t).success
    /\ e.lost <= SentSum(t).lost
    /\ e.delayed <= SentSum(t).delayed
    /\ e.ipd_us <= SentSum(t).ipd_us

\* C16: recvLoop is never about to replace p.res (its start-up
\* initProbeRunResults, which takes no lock) while the output loop is inside
\* its critical section.
NoWriteDuringAnothersCriticalSection ==
  ~(pcR = "initRes" /\ mu = "out")

\* r2 has every counter at or above r1's.
AtLeast(r2, r1) ==
  /\ r2.total >= r1.total /\ r2.success >= r1.success /\ r2.lost >= r1.lost
  /\ r2.delayed >= r1.delayed /\ r2.ipdUS >= r1.ipdUS

\* C18: except at the reset that ends a tick, no step lowers a counter of an
\* accumulator: not in p.res (processMessage) and not in the map
\* outputResults is reconciling and sending.
CountersOnlyGoUpWithinWindow ==
  [][~TickResets =>
       /\ \A t \in (DOMAIN res) \cap (DOMAIN res') : AtLeast(res'[t], res[t])
       /\ \A t \in (DOMAIN outMap) \cap (DOMAIN outMap') : AtLeast(outMap'[t], outMap[t])]_vars

\* C18 witness: in the window after the first tick, "a" counted a success and
\* then a delayed message.
SuccessThenDelayedInSecondWindowSeen ==
  /\ nTicks = 1 /\ pcO = "idle"
  /\ hist["a"] = <<3, 1>>
  /\ "a" \in DOMAIN res
  /\ res["a"].total = 2 /\ res["a"].success = 1 /\ res["a"].delayed = 1

\* C19: the set of sources that have an accumulator changes only at the
\* reset of a tick and at recvLoop's start-up initialisation; after either it
\* is the list discovery returned there; and a message from a source in the
\* set is accumulated, not counted as unknown.
AcceptedSetFollowsRefresh ==
  [][/\ (DOMAIN res' # DOMAIN res) => (TickResets \/ StartUpResets)
     /\ TickResets => DOMAIN res' = targets'
     /\ StartUpResets => DOMAIN res' = targets
     /\ \A s \in DOMAIN res :
          (Processes /\ dgram.buf.ok /\ dgram.buf.src = s) =>
            /\ Accepts(s)
            /\ res'[s].total = res[s].total + 1
            /\ errs' = errs]_vars

\* C19 witness: a message from "b" was dropped while only "a" was listed; a
\* tick then listed both, and the next message from "b" was accumulated.
UnknownThenListedThenAcceptedSeen ==
  /\ errs.missingTargets = [x \in {"b"} |-> 1]
  /\ nTicks = 1 /\ pcO = "idle"
  /\ targets = Names /\ DOMAIN res = Names
  /\ hist["b"] = <<2>>
  /\ res["b"].total = 1 /\ res["b"].success = 1

\* C20: a flow state is created or changed only by processMessage
\* accumulating a message of that source; a tick's reset and the start-up
\* initialisation leave every flow state; and a message that skips sequence
\* numbers adds the gap since the recorded baseline to lost in the window in
\* which it arrives, whatever ticks came in between.
FlowStateSurvivesTicks ==
  [][/\ (TickResets \/ StartUpResets) => fsm' = fsm
     /\ (fsm' # fsm) =>
          \E s \in Names :
            /\ Accepts(s)
            /\ DOMAIN fsm' = (DOMAIN fsm) \cup {s}
            /\ \A x \in (DOMAIN fsm) \ {s} : fsm'[x] = fsm[x]
     /\ \A s \in DOMAIN fsm :
          (Accepts(s) /\ dgram.buf.seq > fsm[s].seq + 1) =>
            res'[s].lost = res[s].lost + (dgram.buf.seq - fsm[s].seq - 1)]_vars

\* C20 witness: message 1 was counted in the first window, a tick sent and
\* reset it, and message 4 then added the gap of 2 to lost in the second.
GapAcrossTickSeen ==
  /\ hist["a"] = <<1, 4>>
  /\ nTicks = 1 /\ pcO = "idle"
  /\ emitted["a"].success = 1 /\ emitted["a"].lost = 0
  /\ res["a"].lost = 2 /\ res["a"].total = 1 /\ res["a"].success = 0
  /\ fsm["a"].seq = 4

\* C21: outputResults starts its range with every accumulator of p.res to
\* visit; each visit sends exactly one snapshot, of the accumulator visited,
\* and nothing else shortens the list of those to visit or sends a snapshot;
\* the reset comes when none is left to visit and sends nothing, so the
\* accumulators it creates (also of targets first listed there) are not sent
\* at that tick.
TickSendsOneSnapshotPerAccumulator ==
  [][/\ (pcO = "lock" /\ pcO' = "send") => (outLeft' = DOMAIN res /\ outMap' = res)
     /\ (outLeft' # outLeft /\ pcO = "send") =>
          /\ SendsSnapshot
          /\ Sent.target \in outLeft
          /\ outLeft' = outLeft \ {Sent.target}
          /\ Sent.target = outMap[Sent.target].target
     /\ (resultsChan' # resultsChan) =>
          /\ pcO = "send" /\ outLeft' # outLeft
          /\ \A i \in 1..Len(resultsChan) : resultsChan'[i] = resultsChan[i]
     /\ TickResets => (outLeft = {} /\ resultsChan' = resultsChan)]_vars

\* C21 witness: the first tick sent one snapshot, of "a", which had received
\* nothing, and its reset listed "b" as well, for which nothing was sent.
SilentTargetSentNewTargetNotSeen ==
  /\ nTicks = 1 /\ pcO = "logErrs"
  /\ Len(resultsChan) = 1
  /\ resultsChan[1].target = "a"
  /\ resultsChan[1].success = 0 /\ resultsChan[1].lost = 0 /\ resultsChan[1].delayed = 0
  /\ hist["a"] = <<>>
  /\ DOMAIN res = Names

\* C22: the reset of a tick leaves in p.res exactly one accumulator for each
\* name of the list discovery returned at that tick, named after it and with
\* every counter zero, and none for any other name.
ResetLeavesZeroAccumulatorPerListedTarget ==
  [][TickResets =>
       /\ DOMAIN res' = targets'
       /\ \A t \in DOMAIN res' :
            res'[t] = [target |-> t, total |-> 0, success |-> 0, ipdUS |-> 0,
                       lost |-> 0, delayed |-> 0]]_vars

\* C22 witness: "a" and "b" both counted a message; the tick then listed only
\* "a": "b" has no accumulator and that of "a" is back at zero.
DelistedRemovedListedZeroedSeen ==
  /\ nTicks = 1 /\ pcO = "logErrs"
  /\ Len(hist["a"]) = 1 /\ Len(hist["b"]) = 1
  /\ targets = {"a"} /\ DOMAIN res = {"a"}
  /\ res["a"].total = 0 /\ res["a"].success = 0

IsErrorEvent == ~dgram.buf.ok \/ dgram.buf.src \notin DOMAIN res

\* The step is outputLoop's call of logErrs.
CallsLogErrs == pcO = "logErrs" /\ pcO' = "idle"

\* The number of logErrs calls outputLoop has completed.
LogErrsCalls ==
  IF pcO \in {"lock", "send", "logErrs"} THEN nTicks - 1 ELSE nTicks

\* C25 as stated: every receive-loop error event (decode failure or unknown
\* sender) increments the throttle counter, and the logThrottleThreshold-th
\* one empties both maps and restarts the count.
ErrorEventAdvancesThrottleCounter ==
  [][(Processes /\ IsErrorEvent) =>
       IF errs.throttleCt + 1 = logThrottleThreshold
       THEN errs' = [throttleCt |-> 0, invalidMsgErrs |-> EmptyMap,
                     missingTargets |-> EmptyMap]
       ELSE errs'.throttleCt = errs.throttleCt + 1]_vars

\* C25, amended: the throttle counter is incremented once per output tick, by
\* the logErrs call that follows the tick's snapshots, and by nothing else (a
\* receive-loop error event leaves it alone), so it is the number of
\* completed calls modulo logThrottleThreshold; the call that makes it
\* logThrottleThreshold takes the lock, logs and empties both maps and stores
\* 0; every other call leaves both maps unchanged; and the maps lose entries
\* in no other step.
ThrottleCountsOutputTicks ==
  [][/\ errs'.throttleCt = LogErrsCalls' % logThrottleThreshold
     /\ Processes => errs'.throttleCt = errs.throttleCt
     /\ CallsLogErrs =>
          IF errs.throttleCt + 1 = logThrottleThreshold
          THEN /\ mu = "none"
               /\ errs' = [throttleCt |-> 0, invalidMsgErrs |-> EmptyMap,
                           missingTargets |-> EmptyMap]
          ELSE errs' = [errs EXCEPT !.throttleCt = @ + 1]
     /\ ~CallsLogErrs =>
          /\ DOMAIN errs.invalidMsgErrs \subseteq DOMAIN errs'.invalidMsgErrs
          /\ DOMAIN errs.missingTargets \subseteq DOMAIN errs'.missingTargets]_vars

\* C25 witness: two error datagrams were processed and logThrottleThreshold
\* ticks completed; the flush of the last tick emptied the maps and restarted
\* the count after the first datagram, and the message of the unlisted "b"
\* that came after it is counted once.
FlushedThenCountedAgainSeen ==
  /\ nTicks = logThrottleThreshold /\ pcO = "idle"
  /\ nRead = 2 /\ pcR = "check"
  /\ errs = [throttleCt |-> 0, invalidMsgErrs |-> EmptyMap,
             missingTargets |-> [x \in {"b"} |-> 1]]

\* The step is a write of echoLoop.
EchoWrites == Len(written') = Len(written) + 1

\* C26: a write of echoLoop that fails with io.EOF ends the loop, a write
\* that fails with another error is logged as an error and leaves the loop
\* running (as does a write without error); echoLoop ends in no other way
\* than io.EOF or the cancelled context; and neither a write nor the return
\* changes an accumulator, a flow state or the error maps and counter.
EchoLoopStopsOnlyOnEOF ==
  [][/\ EchoWrites =>
          LET w == written'[Len(written')] IN
          /\ pcE' = IF w.outcome = "eof" THEN "done" ELSE "run"
          /\ (w.outcome = "err") => (w.log = "error")
          /\ res' = res /\ fsm' = fsm /\ errs' = errs
     /\ (pcE = "run" /\ pcE' = "done") =>
          /\ ctxDone \/ (EchoWrites /\ written'[Len(written')].outcome = "eof")
          /\ res' = res /\ fsm' = fsm /\ errs' = errs]_vars

\* C26 witness: the first write failed with an error other than io.EOF and
\* was logged, the loop went on and took the next hand-off, whose write failed
\* with io.EOF and ended the loop; the accumulator of "a" holds its message.
ErrorThenWriteThenEOFSeen ==
  /\ Len(written) = 2
  /\ written[1].outcome = "err" /\ written[1].log = "error"
  /\ written[2].outcome = "eof" /\ pcE = "done" /\ ~ctxDone
  /\ "a" \in DOMAIN res /\ res["a"].total = 1

\* C27 as stated: a write that succeeds but sends fewer bytes than the
\* datagram received is followed by a warning, and the loop goes on.
ShortWriteIsReported ==
  \A i \in 1..Len(written) :
    (written[i].outcome = "short") => (written[i].log = "warning")

\* C28: the hand-off queued for a datagram has the bytes and the sender
\* address of that datagram; while it is pending nothing changes it, whatever
\* recvLoop reads into its buffer afterwards (the channel changes only by a
\* new hand-off at its end or the removal of its head); and what echoLoop
\* writes is the head as it was queued.
HandOffKeepsItsOwnBytes ==
  [][/\ (pcR = "echo" /\ pcR' = "lock") =>
          /\ echoChan' = Append(echoChan, echoChan'[Len(echoChan')])
          /\ echoChan'[Len(echoChan')].buf = dgram.buf
          /\ echoChan'[Len(echoChan')].addr = dgram.addr
     /\ (nRead' # nRead) => (echoChan' = echoChan)
     /\ (echoChan' # echoChan) =>
          \/ Len(echoChan') = Len(echoChan) + 1
               /\ \A i \in 1..Len(echoChan) : echoChan'[i] = echoChan[i]
          \/ echoChan # <<>> /\ echoChan' = Tail(echoChan)
     /\ EchoWrites =>
          /\ written'[Len(written')].buf = Head(echoChan).buf
          /\ written'[Len(written')].addr = Head(echoChan).addr]_vars

\* C28 witness: the hand-off of the undecodable first datagram is still
\* pending after recvLoop has read the message of "a" into its buffer and
\* queued it too.
PendingHandOffOutlivesLaterReadSeen ==
  /\ nRead = 2 /\ Len(echoChan) = 2 /\ pcR = "lock"
  /\ echoChan[1].buf = BadPayload
  /\ echoChan[2].buf = MsgPayload("a", 1) /\ dgram.buf = MsgPayload("a", 1)

\* C29: a snapshot is sent only from the map outputResults ranges over, with
\* the lock held; the step that releases the lock leaves in p.res none of the
\* accumulators of that map but new ones, so that whenever the lock is not
\* outputResults' no range is open; and processMessage, which writes only to
\* an accumulator of p.res, changes no snapshot that is on the results
\* channel.
SentAccumulatorIsOutOfReach ==
  [][/\ (Len(resultsChan') > Len(resultsChan)) =>
          /\ mu = "out" /\ mu' = "out"
          /\ \E t \in DOMAIN outMap' :
               resultsChan' = Append(resultsChan, outMap'[t])
     /\ TickResets =>
          /\ mu = "out" /\ mu' = "none" /\ outMap' = EmptyMap
          /\ \A t \in DOMAIN res' : res'[t] = NewResult(t)
     /\ (mu' # "out") => (outMap' = EmptyMap /\ outLeft' = {})
     /\ Processes => (resultsChan' = resultsChan /\ outMap' = EmptyMap)]_vars

\* C29 witness: the snapshot of "a" with its first message is on the results
\* channel as it was sent, and the second message of "a", processed after the
\* tick, is counted in the new accumulator.
SnapshotUntouchedByLaterMessageSeen ==
  /\ nTicks = 1 /\ pcO = "idle" /\ pcR = "check"
  /\ Len(hist["a"]) = 2
  /\ resultsChan # <<>> /\ resultsChan[1].target = "a"
  /\ resultsChan[1].total = 1 /\ resultsChan[1].success = 1
  /\ "a" \in DOMAIN res /\ res["a"].total = 1 /\ res["a"].success = 0

\* The step is an export tick of statsKeeper.
Exports == Len(recorded') = Len(recorded) + 1

\* Some export has forwarded a record of t whose total is at least n.
Forwarded(t, n) ==
  \E i \in 1..Len(recorded) :
    t \in DOMAIN recorded[i] /\ recorded[i][t].total >= n

\* The total of each snapshot of the Delist runs.
SnapshotTotal == ExpectedCt(MaxElapsed)

TargetListReadsAreSerialized ==
  [][Exports => ~(mu = "out" /\ pcO = "send" /\ outLeft = {})]_vars


\* The messages accepted for t that no snapshot sent so far has counted: the
\* messages accepted since the reset that made t's current accumulator.
AcceptedSinceReset(t) ==
  Len(hist[t]) - (emitted[t].total - emitted[t].deficit)

\* C32: every accumulator of p.res, every accumulator of the map a tick is
\* ranging over and every snapshot on the results channel has
\* success + delayed <= total; outside outputResults the total of an
\* accumulator is the number of messages accepted for its target since the
\* last reset, and so is, before the reconciliation, the total of the
\* accumulator a tick is about to send.
SuccessAndDelayedWithinTotal ==
  /\ \A t \in DOMAIN res : res[t].success + res[t].delayed <= res[t].total
  /\ \A t \in DOMAIN outMap :
       outMap[t].success + outMap[t].delayed <= outMap[t].total
  /\ \A i \in 1..Len(resultsChan) :
       resultsChan[i].success + resultsChan[i].delayed <= resultsChan[i].total
  /\ (mu # "out") => \A t \in DOMAIN res : res[t].total = AcceptedSinceReset(t)
  /\ \A t \in outLeft : outMap[t].total = AcceptedSinceReset(t)

\* C32 witness: a snapshot of "a" was sent with one success and one delayed
\* message and a total of 2, nothing added by the reconciliation, and the
\* new accumulator of "a" is at zero with the lock free.
TotalMadeOfSuccessAndDelayedSeen ==
  /\ nTicks = 1 /\ pcO = "idle" /\ mu = "none"
  /\ emitted["a"].deficit = 0 /\ Len(hist["a"]) = 2
  /\ \E i \in 1..Len(resultsChan) :
       /\ resultsChan[i].target = "a" /\ resultsChan[i].total = 2
       /\ resultsChan[i].success = 1 /\ resultsChan[i].delayed = 1
  /\ "a" \in DOMAIN res /\ res["a"].total = 0


\* The largest sequence number of the non-empty sequence h.
RECURSIVE MaxOf(_)
MaxOf(h) ==
  IF Len(h) = 1 THEN h[1] ELSE Max(h[1], MaxOf(Tail(h)))

\* C33: a message dropped for want of an accumulator leaves every flow
\* state, so the baseline of a source is always the highest sequence number
\* accepted from it, whatever was dropped from it in between and whatever
\* resets took it off the list; and a message accepted with a sequence number
\* more than one above the baseline adds the numbers skipped, those dropped
\* included, to lost.
DroppedMessagesLeaveBaseline ==
  [][/\ (Processes /\ dgram.buf.ok /\ dgram.buf.src \notin DOMAIN res) =>
          fsm' = fsm
     /\ \A s \in Names :
          IF hist'[s] = <<>> THEN s \notin DOMAIN fsm'
          ELSE s \in DOMAIN fsm' /\ fsm'[s].seq = MaxOf(hist'[s])
     /\ \A s \in DOMAIN fsm :
          (Accepts(s) /\ dgram.buf.seq > fsm[s].seq + 1) =>
            /\ res'[s].lost = res[s].lost + (dgram.buf.seq - MaxOf(hist[s]) - 1)
            /\ res'[s].success = res[s].success]_vars

\* C33 witness: message 1 of "b" was accepted and sent in the first snapshot
\* of the run; the tick took "b" off the list and message 2 was dropped as
\* unknown; the next tick listed "b" again and message 3 was accepted as a
\* gap of one against the baseline 1.
DroppedInBetweenCountedLostSeen ==
  /\ nRead = 3 /\ pcR = "check" /\ nTicks = 2
  /\ resultsChan # <<>> /\ resultsChan[1].target = "b"
  /\ resultsChan[1].success = 1
  /\ hist["b"] = <<1, 3>>
  /\ errs.missingTargets = [x \in {"b"} |-> 1]
  /\ "b" \in DOMAIN res /\ res["b"].lost = 1 /\ res["b"].success = 0
  /\ fsm["b"].seq = 3


\* C34: processMessage of a datagram that fails to decode or whose sender
\* has no accumulator changes no accumulator and no flow state; processMessage
\* of a message of a source with an accumulator changes no error map, no
\* accumulator but that source's and no flow state but that source's, and
\* adds and removes no accumulator.
ProcessMessageTouchesOnlyItsSource ==
  [][Processes =>
       IF IsErrorEvent
       THEN res' = res /\ fsm' = fsm /\ hist' = hist
       ELSE LET src == dgram.buf.src IN
            /\ errs' = errs
            /\ DOMAIN res' = DOMAIN res
            /\ \A t \in (DOMAIN res) \ {src} : res'[t] = res[t]
            /\ DOMAIN fsm' = (DOMAIN fsm) \cup {src}
            /\ \A x \in (DOMAIN fsm) \ {src} : fsm'[x] = fsm[x]
            /\ \A x \in Names \ {src} : hist'[x] = hist[x]]_vars

\* C34 witness: message 1 of "a" and then message 2 of "b" were accumulated:
\* each source has its own count and its own baseline.
TwoSourcesKeptApartSeen ==
  /\ nRead = 2 /\ pcR = "check" /\ dgram.buf = MsgPayload("b", 2)
  /\ hist["a"] = <<1>> /\ hist["b"] = <<2>>
  /\ DOMAIN res = Names /\ res["a"].total = 1 /\ res["b"].total = 1
  /\ DOMAIN fsm = Names /\ fsm["a"].seq = 1 /\ fsm["b"].seq = 2


\* C35: the socket changes state in one step only, the one that closes it,
\* and that step is taken with recvLoop and outputLoop exited and, in echo
\* mode, echoLoop exited; Start returns in that step and in no other; and no
\* echo write follows it.
SocketClosesOnceLoopsAreGone ==
  [][/\ (conn' # conn) =>
          /\ conn = "open" /\ conn' = "closed"
          /\ pcR = "done" /\ pcO = "done"
          /\ echoMode => pcE = "done"
     /\ (pcM' = "done") <=> (conn' = "closed")
     /\ (conn = "closed") => (written' = written /\ nRead' = nRead)]_vars

\* C35 witness: in echo mode two datagrams were read and one echo written
\* before the cancel; the three loops have exited, the socket is closed and
\* Start has returned, while statsKeeper, which Start does not wait for, has
\* not yet seen the cancellation.
ClosedWithStatsKeeperRunningSeen ==
  /\ echoMode /\ ctxDone /\ conn = "closed" /\ pcM = "done"
  /\ pcR = "done" /\ pcO = "done" /\ pcE = "done" /\ pcS = "run"
  /\ nRead = 2 /\ Len(written) = 1 /\ written[1].outcome = "ok"

\* The throttled error log with output ticks that keep occurring (the ticker
\* fires every tick period) and a receive loop that completes the handling
\* of what it has read (processMessage releases the lock on return).
SpecThrottleLive ==
  /\ SpecThrottle
  /\ WF_vars(OutNext(Throttle))
  /\ WF_vars(RecvNext(Throttle))

\* A warning of kind k among the warnings of the log l from the n-th on
\* carries the entry e |-> v.
LoggedIn(l, n, k, e, v) ==
  \E i \in n..Len(l) :
    /\ l[i].kind = k
    /\ e \in DOMAIN l[i].entries
    /\ l[i].entries[e] = v

LoggedFrom(n, k, e, v) == LoggedIn(logs, n, k, e, v)

\* The step is the logErrs call that flushes.
Flushes == CallsLogErrs /\ errs.throttleCt + 1 = logThrottleThreshold

\* C36: an entry of the error maps (the sender address of a decode error, an
\* unknown source and its count) stays until a flush, with a count that does
\* not shrink; the flush that removes it writes it to the log, with the text
\* or the count it had; the flush is the logErrs call that makes the counter
\* logThrottleThreshold, the counter lies in 0..logThrottleThreshold - 1 and
\* every other logErrs call adds one to it, so the flush is at most
\* logThrottleThreshold calls (one per output tick) away; and with ticks
\* that keep occurring every recorded entry is logged.
RecordedErrorsStayUntilLogged ==
  /\ [][/\ errs.throttleCt \in 0..(logThrottleThreshold - 1)
        /\ IF Flushes
           THEN /\ \A a \in DOMAIN errs.invalidMsgErrs :
                     LoggedIn(logs', Len(logs) + 1, "invalid", a,
                              errs.invalidMsgErrs[a])
                /\ \A t \in DOMAIN errs.missingTargets :
                     LoggedIn(logs', Len(logs) + 1, "missing", t,
                              errs.missingTargets[t])
                /\ errs'.throttleCt = 0
           ELSE /\ logs' = logs
                /\ DOMAIN errs.invalidMsgErrs
                     \subseteq DOMAIN errs'.invalidMsgErrs
                /\ \A t \in DOMAIN errs.missingTargets :
                     /\ t \in DOMAIN errs'.missingTargets
                     /\ errs'.missingTargets[t] >= errs.missingTargets[t]
                /\ CallsLogErrs => errs'.throttleCt = errs.throttleCt + 1]_vars
  /\ \A a \in Addrs :
       (a \in DOMAIN errs.invalidMsgErrs /\ LogErrsCalls < logThrottleThreshold)
         ~> LoggedFrom(1, "invalid", a, DecodeErrText)
  /\ \A t \in Names :
       (t \in DOMAIN errs.missingTargets /\ LogErrsCalls < logThrottleThreshold)
         ~> \E n \in 1..MaxRecv : LoggedFrom(1, "missing", t, n)

\* C36 witness: a decode error and a message of the unlisted "b" were
\* recorded, the logThrottleThreshold-th tick flushed them, and the log holds
\* both while the maps are empty.
BothKindsLoggedByTheFlushSeen ==
  /\ nTicks = logThrottleThreshold /\ pcO = "idle"
  /\ nRead = 2
  /\ errs = [throttleCt |-> 0, invalidMsgErrs |-> EmptyMap,
             missingTargets |-> EmptyMap]
  /\ LoggedFrom(1, "invalid", "ip1", DecodeErrText)
  /\ LoggedFrom(2, "missing", "b", 1)

\* The step is the updateState call of a refresh, and the response is one it
\* applies.
AcceptsResponse ==
  /\ rdsCall.pc = "update" /\ rdsCall'.pc = "idle"
  /\ ~(/\ rdsCall.response.last_modified # 0
       /\ rdsCall.response.last_modified <= client.lastModified)

\* One endpoint for the first resource of every name in rs, in the order of
\* rs.
FirstOfEachName(rs) ==
  LET firsts == {i \in 1..Len(rs) :
                   \A j \in 1..(i - 1) : rs[j].name # rs[i].name}
      place(i) == Cardinality({j \in firsts : j <= i})
  IN  [k \in 1..Cardinality(firsts) |->
         LET i == CHOOSE x \in firsts : place(x) = k
         IN  [Name |-> rs[i].name, IP |-> ParseIP(rs[i].ip)]]

\* C37: in every state names has no duplicates and holds exactly the keys of
\* the cache; and what ListEndpoints returns is set by the updateState call
\* that applies a response, to one endpoint for the first resource of every
\* name of that response in the response's order, and changes in no other
\* step.
NamesAreCacheKeysInResponseOrder ==
  /\ [](/\ \A i, j \in 1..Len(client.names) :
             i # j => client.names[i] # client.names[j]
        /\ {client.names[i] : i \in 1..Len(client.names)}
             = DOMAIN client.cache)
  /\ [][IF AcceptsResponse
        THEN ListEndpoints(client')
               = FirstOfEachName(rdsCall.response.resources)
        ELSE ListEndpoints(client') = ListEndpoints(client)]_vars

\* C37 witness: the response listed r2, then r2 again with another IP, then
\* r1; the client lists r2 with the first IP, then r1.
SecondInstanceIgnoredSeen ==
  /\ rdsCall.pc = "idle" /\ rdsCall.outcome = "response"
  /\ rdsCall.response.last_modified = client.lastModified
  /\ Len(rdsCall.response.resources) = 3
  /\ rdsCall.response.resources[1] = [name |-> "r2", ip |-> "10.0.0.2/24"]
  /\ rdsCall.response.resources[2] = [name |-> "r2", ip |-> "10.0.0.1"]
  /\ rdsCall.response.resources[3].name = "r1"
  /\ client.names = <<"r2", "r1">>
  /\ client.cache["r2"] = [ip |-> "10.0.0.2", ipStr |-> "10.0.0.2/24"]

\* C38: a refresh whose listResources call fails returns without calling
\* updateState and leaves cache, names and lastModified as they were; so
\* does the updateState call for a response whose last_modified is non-zero
\* and not greater than the client's lastModified; and the steps of a
\* refresh before updateState change none of them either.
FailedOrStaleRefreshChangesNothing ==
  [][/\ (rdsCall.pc = "called" /\ rdsCall'.outcome = "error") =>
          rdsCall'.pc = "idle" /\ client' = client
     /\ (/\ rdsCall.pc = "update"
         /\ rdsCall.response.last_modified # 0
         /\ rdsCall.response.last_modified <= client.lastModified) =>
          client' = client
     /\ rdsCall.pc # "update" => client' = client]_vars

\* C38 witness: a refresh has ended with a response that carries the
\* client's own last_modified and other resources than the client lists.
SameLastModifiedNotAppliedSeen ==
  /\ rdsCall.pc = "idle" /\ rdsCall.outcome = "response"
  /\ client.lastModified = 2
  /\ rdsCall.response.last_modified = 2
  /\ client.names = <<"r1">>
  /\ rdsCall.response.resources = <<[name |-> "r2", ip |-> "10.0.0.1"]>>

\* C39: the updateState call for a response whose last_modified is non-zero
\* and not greater than the last_modified of a response applied before
\* leaves the cache and names as they were.
AcceptedLastModifiedOnlyGrows ==
  [][(/\ rdsCall.pc = "update"
      /\ rdsCall.response.last_modified # 0
      /\ rdsCall.response.last_modified <= maxAccepted) =>
       client'.cache = client.cache /\ client'.names = client.names]_vars

====
